---- MODULE Spec2Model ----
(***************************************************************************)
(* Model of the product matching engine of the GHL chatbot                 *)
(* (src/services/pricingService.js, class FixedPricingService).            *)
(*                                                                         *)
(* Strings are sequences of atoms.  An atom is a piece of text that the    *)
(* code never looks inside: a word ("iphone", "pro", "pantalla"), a model  *)
(* number ("14") or one blank (" ").  The string is the concatenation of   *)
(* its atoms, so <<"iphone", "14", "pro">> is "iphone14pro" and            *)
(* <<"iphone", " ", "14">> is "iphone 14".  No atom of the vocabulary is   *)
(* a substring of another one or of a concatenation of others, so          *)
(* String.includes and the regular expressions of the source, which work   *)
(* on characters, are decided by the atoms.                                *)
(***************************************************************************)
EXTENDS Integers, Sequences, FiniteSets, TLC

VARIABLES
    text,            \* ExtractSpec: the text handed to the classifiers
    analyzed,        \* ExtractSpec: {} or {_extractExactDeviceModel(text)}
    loaded,          \* ExtractSpec: {} or {_extractDeviceFromName(text)}
    catalogItem,     \* PriceSpec: the catalog item whose price is wanted
    priced,          \* PriceSpec: {} or {what pricingService makes of it}
    quoted,          \* PriceSpec: {} or {what aiService makes of it}
    qualityOptions,  \* QualitySpec: {} or {the last findAllQualityOptions}
    messageQueue,    \* server: the messages waiting, oldest first
    processing,      \* server: the flag of processMessageQueue
    immediates,      \* server: the setImmediate callbacks not yet run
    draining,        \* server: for each drain loop that is running, the
                     \* message it has handed to processMessage
    arrived,         \* server: how many messages addToQueue has been given
    handed,          \* server: the messages handed to processMessage so far
                     \* and how each call ended, in the order of the calls
    request,         \* processor: {} or {the processPostAIActions call}
    postProcessResults, \* processor: the results object of that call
    attempt,         \* processor: the counter of the retry loop running
    attempts,        \* processor: how each attempt of each loop ended
    step,            \* processor: where processPostAIActions stands
    thrown,          \* processor: the retry loops that threw
    tagCalls,        \* tagService: what each addTags call resolved with
    stageCalls,      \* opportunityService: how each updateStage call ended
    tagsOnly,        \* processor: {} or {what processTagsOnly returned}
    inbound,         \* webhook: {} or {the message being processed, with
                     \* what the AI made of it}
    msgStep,         \* webhook: where processEnhancedMessageAsync stands
    sends,           \* webhook: how each sendGHLResponse call ended
    tagging,         \* webhook: how the tagging step (step 4) ended
    conversationFiles, \* memory: for each contact, {} (no file) or
                     \* {the conversation of its file}
    stored,          \* memory: for each contact, how many messages
                     \* storeMessage has written
    storeCall,       \* memory: {} or {the last storeMessage call and what
                     \* it returned}
    csvFile,         \* pricing.csv: the data rows, each a product name,
                     \* with "," and the price after it when it has one
    vectorCacheFile, \* vector-cache.json: {} (no file) or {entries}
    products,        \* this.products, a Map in insertion order
    vectorStore,     \* this.vectorStore, a Map in insertion order
    pricingData,     \* this.pricingData: {} (null) or {items}
    isInitialized,   \* this.isInitialized
    provider,        \* the embedding provider: "up" and "plain" (answers or
                     \* fails), "flaky" (fails once) or "down" (fails)
    call,            \* the last searchProducts call: {} or {[query, maxResults]}
    returned,        \* what that call resolved with (a list of result entries)
    process,         \* the number of the node process that is running
    pass,            \* the latest initialize() call: {} or {what it did}
    previous,        \* the initialize() call before that one
    pc,              \* ConcurrentSpec: where each caller's async call stands
    pending          \* ConcurrentSpec: the products a caller has yet to embed

vars == <<text, analyzed, loaded, catalogItem, priced, quoted,
          qualityOptions, messageQueue, processing, immediates, draining,
          arrived, handed, request, postProcessResults, attempt, attempts,
          step,
          thrown, tagCalls, stageCalls, tagsOnly, inbound, msgStep, sends,
          tagging, conversationFiles, stored, storeCall,
          csvFile, vectorCacheFile, products,
          vectorStore, pricingData, isInitialized, provider, call, returned,
          process, pass, previous, pc, pending>>

historyVars == <<process, pass, previous>>

callerVars == <<pc, pending>>

priceVars == <<catalogItem, priced, quoted>>

classifierVars == <<text, analyzed, loaded, catalogItem, priced, quoted,
                    qualityOptions>>

queueVars == <<messageQueue, processing, immediates, draining, arrived,
               handed>>

processorVars == <<request, postProcessResults, attempt, attempts, step, thrown,
                   tagCalls, stageCalls, tagsOnly>>

messageVars == <<inbound, msgStep, sends, tagging>>

memoryVars == <<conversationFiles, stored, storeCall>>

serviceVars == <<processorVars, messageVars, memoryVars>>

serverVars == <<queueVars, serviceVars>>

extractVars == <<classifierVars, serverVars>>
engineVars == <<csvFile, vectorCacheFile, products, vectorStore, pricingData,
                isInitialized, provider, call, returned, process, pass,
                previous, pc, pending>>

(***************************************************************************)
(* Bounds of the model.                                                    *)
(***************************************************************************)
MaxTextLen == 4
MaxWords == 3
MaxRows == 2
MaxLimit == 2
MaxBigRows == 21
MaxPriceLen == 3
MaxVariants == 3
MaxMessages == 4
MaxStores == 52

(***************************************************************************)
(* Strings.                                                                *)
(***************************************************************************)
SP == " "

\* String.prototype.toLowerCase, atom by atom.
LowerAtom(a) ==
    CASE a = "iPhone" -> "iphone"
      [] a = "Pro" -> "pro"
      [] a = "Max" -> "max"
      [] a = "Plus" -> "plus"
      [] a = "Mini" -> "mini"
      [] a = "Samsung" -> "samsung"
      [] a = "Galaxy" -> "galaxy"
      [] a = "S21" -> "s21"
      [] a = "Hola" -> "hola"
      [] OTHER -> a

ToLowerCase(s) == [i \in 1..Len(s) |-> LowerAtom(s[i])]

\* \d : the atoms that are runs of digits.
IsDigits(a) == a \in {"12", "13", "14", "15", "99"}

\* \s : the blank.
IsSpace(a) == a = SP

\* The atom at position i, or "" past the end of the string.
At(s, i) == IF i >= 1 /\ i <= Len(s) THEN s[i] ELSE ""

\* The position reached from i by a greedy \s*.
RECURSIVE SkipSpaces(_, _)
SkipSpaces(s, i) ==
    IF i <= Len(s) /\ IsSpace(s[i]) THEN SkipSpaces(s, i + 1) ELSE i

\* String.prototype.includes(needle), needle a sequence of atoms.
IncludesAt(s, needle, i) ==
    /\ i + Len(needle) - 1 <= Len(s)
    /\ \A k \in 1..Len(needle) : s[i + k - 1] = needle[k]

Includes(s, needle) == \E i \in 1..(Len(s) + 1) : IncludesAt(s, needle, i)

\* includes of a single word.
Has(s, w) == \E i \in 1..Len(s) : s[i] = w

\* The words "a b c" of a string literal of the source, blanks between them.
RECURSIVE Words(_)
Words(ws) ==
    IF Len(ws) = 0 THEN <<>>
    ELSE IF Len(ws) = 1 THEN <<ws[1]>>
    ELSE <<ws[1], SP>> \o Words(Tail(ws))

Unknown == <<"unknown">>

(***************************************************************************)
(* _extractExactDeviceModel: the ordered table of patterns.  Each pattern  *)
(* is its literals, with \s* between them, and the atoms its negative      *)
(* lookahead (?!\s*a|\s*b) refuses after the last literal.                 *)
(***************************************************************************)
\* A table that lists "pro" before "pro max" and leaves out its lookahead.
iphonePatternsProFirst ==
    << [lits |-> <<"iphone", "15", "pro">>, neg |-> {}],
       [lits |-> <<"iphone", "15", "pro", "max">>, neg |-> {}],
       [lits |-> <<"iphone", "15", "plus">>, neg |-> {}],
       [lits |-> <<"iphone", "15">>, neg |-> {"pro", "plus"}],
       [lits |-> <<"iphone", "14", "pro">>, neg |-> {}],
       [lits |-> <<"iphone", "14", "pro", "max">>, neg |-> {}],
       [lits |-> <<"iphone", "14", "plus">>, neg |-> {}],
       [lits |-> <<"iphone", "14">>, neg |-> {"pro", "plus"}],
       [lits |-> <<"iphone", "13", "pro">>, neg |-> {}],
       [lits |-> <<"iphone", "13", "pro", "max">>, neg |-> {}],
       [lits |-> <<"iphone", "13", "mini">>, neg |-> {}],
       [lits |-> <<"iphone", "13">>, neg |-> {"pro", "mini"}] >>

iphonePatterns ==
    << [lits |-> <<"iphone", "15", "pro", "max">>, neg |-> {}],
       [lits |-> <<"iphone", "15", "pro">>, neg |-> {"max"}],
       [lits |-> <<"iphone", "15", "plus">>, neg |-> {}],
       [lits |-> <<"iphone", "15">>, neg |-> {"pro", "plus"}],
       [lits |-> <<"iphone", "14", "pro", "max">>, neg |-> {}],
       [lits |-> <<"iphone", "14", "pro">>, neg |-> {"max"}],
       [lits |-> <<"iphone", "14", "plus">>, neg |-> {}],
       [lits |-> <<"iphone", "14">>, neg |-> {"pro", "plus"}],
       [lits |-> <<"iphone", "13", "pro", "max">>, neg |-> {}],
       [lits |-> <<"iphone", "13", "pro">>, neg |-> {"max"}],
       [lits |-> <<"iphone", "13", "mini">>, neg |-> {}],
       [lits |-> <<"iphone", "13">>, neg |-> {"pro", "mini"}] >>

\* The model a pattern of the table returns: its literals as words.
PatternModel(p) == Words(p.lits)

\* The position after a match of lits[k..] that starts at i (0: no match).
RECURSIVE MatchLits(_, _, _, _)
MatchLits(s, i, lits, k) ==
    IF k > Len(lits) THEN i
    ELSE LET j == IF k = 1 THEN i ELSE SkipSpaces(s, i)
         IN  IF At(s, j) = lits[k] THEN MatchLits(s, j + 1, lits, k + 1) ELSE 0

\* pattern.test(s)
PatternTest(p, s) ==
    \E i \in 1..Len(s) :
        LET e == MatchLits(s, i, p.lits, 1)
        IN  e # 0 /\ At(s, SkipSpaces(s, e)) \notin p.neg

\* The first pattern of the table from index k on that matches s.
RECURSIVE FirstPattern(_, _, _)
FirstPattern(table, s, k) ==
    IF k > Len(table) THEN 0
    ELSE IF PatternTest(table[k], s) THEN k
    ELSE FirstPattern(table, s, k + 1)

_extractExactDeviceModel(query) ==
    LET queryLower == ToLowerCase(query)
        k == FirstPattern(iphonePatterns, queryLower, 1)
    IN  IF k # 0 THEN PatternModel(iphonePatterns[k]) ELSE Unknown

(***************************************************************************)
(* _extractDeviceFromName: the loader's classifier,                        *)
(*   /iphone\s*(\d+(?:\s*pro(?:\s*max)?)?|\s*plus|\s*mini|se|xr|xs|x)/     *)
(* No atom of the vocabulary starts with se, xr, xs or x, so these         *)
(* alternatives never match here.                                          *)
(***************************************************************************)
\* The last position of the greedy \d+ that starts at i.
RECURSIVE DigitsEnd(_, _)
DigitsEnd(s, i) ==
    IF IsDigits(At(s, i + 1)) THEN DigitsEnd(s, i + 1) ELSE i

\* The last position of group 1 when "iphone" is at i (0: no match there).
GroupEnd(s, i) ==
    LET j == SkipSpaces(s, i + 1)
    IN  IF IsDigits(At(s, j))
        THEN LET d == DigitsEnd(s, j)
                 p == SkipSpaces(s, d + 1)
             IN  IF At(s, p) = "pro"
                 THEN LET m == SkipSpaces(s, p + 1)
                      IN  IF At(s, m) = "max" THEN m ELSE p
                 ELSE d
        ELSE IF At(s, j) \in {"plus", "mini"} THEN j
        ELSE 0

\* replace(/\s+/g, ' ')
RECURSIVE CollapseSpaces(_)
CollapseSpaces(s) ==
    IF Len(s) = 0 THEN <<>>
    ELSE IF IsSpace(s[1])
         THEN <<SP>> \o CollapseSpaces(SubSeq(s, SkipSpaces(s, 1), Len(s)))
         ELSE <<s[1]>> \o CollapseSpaces(Tail(s))

\* String.prototype.trim
RECURSIVE TrimLeft(_)
TrimLeft(s) == IF Len(s) > 0 /\ IsSpace(s[1]) THEN TrimLeft(Tail(s)) ELSE s

RECURSIVE TrimRight(_)
TrimRight(s) ==
    IF Len(s) > 0 /\ IsSpace(s[Len(s)])
    THEN TrimRight(SubSeq(s, 1, Len(s) - 1)) ELSE s

Trim(s) == TrimRight(TrimLeft(s))

\* The leftmost position of "iphone" from i on where the pattern matches.
RECURSIVE IphoneMatch(_, _)
IphoneMatch(s, i) ==
    IF i > Len(s) THEN 0
    ELSE IF s[i] = "iphone" /\ GroupEnd(s, i) # 0 THEN i
    ELSE IphoneMatch(s, i + 1)

\* The atoms [a-z]\d+ | note\s*\d+ | s\d+ of the Samsung pattern.
IsGalaxyCode(a) == a \in {"s21"}

RECURSIVE GalaxyMatch(_, _)
GalaxyMatch(s, i) ==
    IF i > Len(s) THEN 0
    ELSE IF IsGalaxyCode(s[i]) THEN i
    ELSE GalaxyMatch(s, i + 1)

_extractDeviceFromName(productName) ==
    LET nameLower == ToLowerCase(productName)
        i == IphoneMatch(nameLower, 1)
        g == GalaxyMatch(nameLower, 1)
    IN  IF i # 0
        THEN LET first == SkipSpaces(nameLower, i + 1)
                 group == SubSeq(nameLower, first, GroupEnd(nameLower, i))
             IN  <<"iphone", SP>> \o Trim(CollapseSpaces(group))
        ELSE IF (Has(nameLower, "samsung") \/ Has(nameLower, "galaxy")) /\ g # 0
        THEN <<"samsung", SP, nameLower[g]>>
        ELSE Unknown

(***************************************************************************)
(* The other rule tables of the loader and of the alternative finder.      *)
(***************************************************************************)
_extractBrand(productName) ==
    LET nameLower == ToLowerCase(productName)
    IN  IF Has(nameLower, "iphone") \/ Has(nameLower, "apple") THEN "apple"
        ELSE IF Has(nameLower, "samsung") \/ Has(nameLower, "galaxy")
        THEN "samsung"
        ELSE IF Has(nameLower, "xiaomi") \/ Has(nameLower, "redmi")
        THEN "xiaomi"
        ELSE IF Has(nameLower, "huawei") THEN "huawei"
        ELSE IF Has(nameLower, "motorola") THEN "motorola"
        ELSE IF Has(nameLower, "nokia") THEN "nokia"
        ELSE "unknown"

_extractServiceType(productName) ==
    LET nameLower == ToLowerCase(productName)
    IN  IF Has(nameLower, "pantalla") \/ Has(nameLower, "display")
           \/ Has(nameLower, "screen") THEN "pantalla"
        ELSE IF Has(nameLower, "bateria") \/ Has(nameLower, "battery")
        THEN "bateria"
        ELSE IF Has(nameLower, "camara") \/ Has(nameLower, "camera")
                \/ Has(nameLower, "lente") THEN "camara"
        ELSE IF Has(nameLower, "altavoz") \/ Has(nameLower, "speaker")
        THEN "altavoz"
        ELSE IF Has(nameLower, "flex") \/ Has(nameLower, "cable") THEN "flex"
        ELSE IF Has(nameLower, "tapa") \/ Has(nameLower, "cover") THEN "tapa"
        ELSE IF Has(nameLower, "antena") \/ Has(nameLower, "wifi")
        THEN "antena"
        ELSE "general"

_extractServiceFromQuery(query) ==
    LET queryLower == ToLowerCase(query)
    IN  IF Has(queryLower, "pantalla") \/ Has(queryLower, "screen")
           \/ Has(queryLower, "display") THEN "pantalla"
        ELSE IF Has(queryLower, "bateria") \/ Has(queryLower, "battery")
        THEN "bateria"
        ELSE IF Has(queryLower, "camara") \/ Has(queryLower, "camera")
        THEN "camara"
        ELSE "general"

(***************************************************************************)
(* Maps.  A JavaScript Map keeps its entries in insertion order; setting   *)
(* a key that is present replaces its value in place.                      *)
(***************************************************************************)
MapHas(m, id) == \E i \in 1..Len(m) : m[i].id = id

MapGet(m, id) == m[CHOOSE i \in 1..Len(m) : m[i].id = id]

MapSet(m, e) ==
    IF MapHas(m, e.id)
    THEN [i \in 1..Len(m) |-> IF m[i].id = e.id THEN e ELSE m[i]]
    ELSE Append(m, e)

RECURSIVE MapSetAll(_, _)
MapSetAll(m, es) ==
    IF Len(es) = 0 THEN m ELSE MapSetAll(MapSet(m, es[1]), Tail(es))

\* Array.prototype.filter
Filter(s, Keep(_)) == SelectSeq(s, Keep)

\* A slice that cuts nothing off.
SliceKeepsAll(s, from, to) == s

\* Array.prototype.slice(from, to), 0 <= from, 0 <= to
Slice(s, from, to) ==
    SubSeq(s, from + 1, IF to < Len(s) THEN to ELSE Len(s))

\* Array.prototype.sort with a comparator that puts the greater first: the
\* sort is stable, so equal elements keep their order.
StableSortDesc(s, Greater(_, _)) ==
    LET Rank(i) ==
            1 + Cardinality({j \in 1..Len(s) :
                    \/ Greater(s[j], s[i])
                    \/ (~Greater(s[i], s[j]) /\ j < i)})
    IN  [p \in 1..Len(s) |-> s[CHOOSE i \in 1..Len(s) : Rank(i) = p]]

(***************************************************************************)
(* Prices.  The text of a price column is a sequence of characters, since  *)
(* the code looks inside it: it deletes characters and parses the rest.    *)
(* A JavaScript number is the record of a decimal fraction,                *)
(* sign * num / 10^scale, kept in lowest terms of scale; NaN and null are  *)
(* values of their own.                                                    *)
(***************************************************************************)
Digits == {"0", "1", "2", "3", "4", "5", "6", "7", "8", "9"}

DigitValue(c) ==
    CASE c = "0" -> 0 [] c = "1" -> 1 [] c = "2" -> 2 [] c = "3" -> 3
      [] c = "4" -> 4 [] c = "5" -> 5 [] c = "6" -> 6 [] c = "7" -> 7
      [] c = "8" -> 8 [] c = "9" -> 9

NaN == [type |-> "NaN"]

Null == [type |-> "null"]

RECURSIVE Pow10(_)
Pow10(k) == IF k = 0 THEN 1 ELSE 10 * Pow10(k - 1)

RECURSIVE Number(_, _, _)
Number(sign, num, scale) ==
    IF num = 0 THEN [type |-> "number", sign |-> 1, num |-> 0, scale |-> 0]
    ELSE IF scale > 0 /\ num % 10 = 0 THEN Number(sign, num \div 10, scale - 1)
    ELSE [type |-> "number", sign |-> sign, num |-> num, scale |-> scale]

ZeroPrice == Number(1, 0, 0)

\* isNaN(price)
isNaN(price) == price = NaN

\* price >= 0
NotNegative(price) == ~isNaN(price) /\ price.sign = 1

\* price > 0
GreaterThanZero(price) == ~isNaN(price) /\ price.sign = 1 /\ price.num > 0

\* Math.round(price), price > 0
MathRound(price) ==
    Number(1, (2 * price.num + Pow10(price.scale))
                  \div (2 * Pow10(price.scale)), 0)

\* The longest prefix of s made of digits.
RECURSIVE DigitPrefix(_)
DigitPrefix(s) ==
    IF Len(s) > 0 /\ s[1] \in Digits
    THEN <<s[1]>> \o DigitPrefix(Tail(s))
    ELSE <<>>

RECURSIVE DigitsValue(_)
DigitsValue(s) ==
    IF Len(s) = 0 THEN 0
    ELSE 10 * DigitsValue(SubSeq(s, 1, Len(s) - 1)) + DigitValue(s[Len(s)])

\* parseFloat(s): leading blanks, a sign, digits, a point and digits; the
\* prefix that is a decimal literal counts and the rest is ignored.  The
\* texts of the model hold no exponent and no "Infinity".
parseFloat(s) ==
    LET t == TrimLeft(s)
        signed == Len(t) > 0 /\ t[1] \in {"-", "+"}
        sign == IF Len(t) > 0 /\ t[1] = "-" THEN 0 - 1 ELSE 1
        u == IF signed THEN Tail(t) ELSE t
        whole == DigitPrefix(u)
        v == SubSeq(u, Len(whole) + 1, Len(u))
        fraction == IF Len(v) > 0 /\ v[1] = "."
                    THEN DigitPrefix(Tail(v))
                    ELSE <<>>
    IN  IF Len(whole) = 0 /\ Len(fraction) = 0 THEN NaN
        ELSE Number(sign, DigitsValue(whole \o fraction), Len(fraction))

\* replace(/[^0-9.]/g, '')
DigitsAndPoint(s) == SelectSeq(s, LAMBDA c : c \in Digits \cup {"."})

\* replace(/[^\d.-]/g, '')
DigitsPointAndMinus(s) ==
    SelectSeq(s, LAMBDA c : c \in Digits \cup {".", "-"})

\* item[field] of an item whose columns are all strings: {} is undefined.
Field(row, field) == IF field \in DOMAIN row THEN {row[field]} ELSE {}

\* FixedPricingService._getPrice
RECURSIVE PriceOfFields(_, _)
PriceOfFields(row, priceFields) ==
    IF Len(priceFields) = 0 THEN ZeroPrice
    ELSE LET value == Field(row, priceFields[1])
             price == parseFloat(DigitsAndPoint(CHOOSE s \in value : TRUE))
         IN  IF value # {} /\ value # {<<>>} /\ GreaterThanZero(price)
             THEN price
             ELSE PriceOfFields(row, Tail(priceFields))

_getPrice(row) == PriceOfFields(row, <<"PUBLICO TIENDA", "price", "precio">>)

\* FixedPricingService._getProductText: the name, and the price that
\* follows it ({} when the text shows none).
_getProductText(row) ==
    LET price == _getPrice(row)
    IN  [name |-> Field(row, "Prod"),
         price |-> IF GreaterThanZero(price) THEN {price} ELSE {}]

\* FixedAIService._getPrice.  Every column of a catalog item is a string, so
\* the branch for number values and the closing scan for a number between
\* 100 and 100000 find nothing.
RECURSIVE RoundedPriceOfFields(_, _)
RoundedPriceOfFields(row, priceFields) ==
    IF Len(priceFields) = 0 THEN ZeroPrice
    ELSE LET value == Field(row, priceFields[1])
             price == parseFloat(
                          DigitsPointAndMinus(CHOOSE s \in value : TRUE))
         IN  IF value # {} /\ value # {<<>>} /\ GreaterThanZero(price)
             THEN MathRound(price)
             ELSE RoundedPriceOfFields(row, Tail(priceFields))

aiService_getPrice(row) ==
    RoundedPriceOfFields(row,
        <<"PUBLICO TIENDA", "PRECIO PUBLICO TIENDA", "PUBLICO_TIENDA",
          "price", "precio", "PRECIO", "Price", "PUBLICO", "PUBLIC_PRICE">>)

\* One line of FixedAIService._createProductsText: the price it prints, {}
\* when it prints "Consultar precio".
_createProductsText(row) ==
    LET price == aiService_getPrice(row)
    IN  [name |-> Field(row, "Prod"),
         price |-> IF GreaterThanZero(price) THEN {price} ELSE {}]

(***************************************************************************)
(* _loadCSVData.  csvFile holds the data rows of pricing.csv, the header   *)
(* row (Prod, PUBLICO TIENDA) being the first line of the file.            *)
(***************************************************************************)
\* The number of characters of an atom.
Chars(a) ==
    CASE a \in {SP, "_"} -> 1
      [] a \in {"12", "13", "14", "15", "99"} -> 2
      [] a \in {"pro", "Pro", "max", "Max", "s21", "S21"} -> 3
      [] a \in {"plus", "Plus", "mini", "Mini", "hola", "Hola"} -> 4
      [] a \in {"oled"} -> 4
      [] a \in {"iphone", "iPhone", "galaxy", "Galaxy", "screen"} -> 6
      [] a \in {"incell"} -> 6
      [] a \in {"samsung", "Samsung", "bateria", "battery", "unknown"} -> 7
      [] a \in {"pantalla", "original"} -> 8

RECURSIVE Length(_)
Length(s) == IF Len(s) = 0 THEN 0 ELSE Chars(s[1]) + Length(Tail(s))

\* replace(/[^a-zA-Z0-9]/g, '_')
Sanitize(s) == [i \in 1..Len(s) |-> IF IsSpace(s[i]) THEN "_" ELSE s[i]]

\* substring(0, n): exact when the cut falls between two atoms, as it does
\* for every name of the model (none is longer than IdNameChars characters).
RECURSIVE Substring(_, _)
Substring(s, n) ==
    IF Len(s) = 0 \/ Chars(s[1]) > n THEN <<>>
    ELSE <<s[1]>> \o Substring(Tail(s), n - Chars(s[1]))

IdNameChars == 30

\* `product_${i}_${...}`
ProductId(i, productName) ==
    [index |-> i, name |-> Substring(Sanitize(productName), IdNameChars)]

_extractQualityType(productName) ==
    LET nameLower == ToLowerCase(productName)
    IN  IF Has(nameLower, "original") \/ Has(nameLower, "oem")
        THEN "original"
        ELSE IF Has(nameLower, "compatible") \/ Has(nameLower, "comp")
        THEN "compatible"
        ELSE IF Has(nameLower, "incell") \/ Has(nameLower, "in-cell")
        THEN "incell"
        ELSE IF Has(nameLower, "oled") \/ Has(nameLower, "amoled")
        THEN "oled"
        ELSE IF Has(nameLower, "lcd") THEN "lcd"
        ELSE "standard"

\* _parsePrice(priceStr): priceStr is {} (undefined) or {text}
_parsePrice(priceStr) ==
    LET price == parseFloat(DigitsAndPoint(CHOOSE s \in priceStr : TRUE))
    IN  IF priceStr = {} \/ priceStr = {<<>>} THEN ZeroPrice
        ELSE IF isNaN(price) THEN ZeroPrice
        ELSE price

\* lines[i].split(','): the atom "," parts the columns of a row, the name
\* in atoms and the price in characters.
RECURSIVE SplitRow(_, _)
SplitRow(row, column) ==
    IF Len(row) = 0 THEN <<column>>
    ELSE IF row[1] = "," THEN <<column>> \o SplitRow(Tail(row), <<>>)
    ELSE SplitRow(Tail(row), Append(column, row[1]))

\* .map(v => v.trim().replace(/"/g, '')): no row of the model has a quote.
Values(row) ==
    LET columns == SplitRow(row, <<>>)
    IN  [k \in 1..Len(columns) |-> Trim(columns[k])]

\* values[1], {} when the row has one column
PriceColumn(row) ==
    IF Len(Values(row)) > 1 THEN {Values(row)[2]} ELSE {}

\* item[header] = values[index] || '' for the headers Prod, PUBLICO TIENDA
Item(row) ==
    ("Prod" :> Values(row)[1])
        @@ ("PUBLICO TIENDA" :>
                IF PriceColumn(row) = {} THEN <<>>
                ELSE CHOOSE s \in PriceColumn(row) : TRUE)

Metadata(i, productName, price) ==
    [brand |-> _extractBrand(productName),
     deviceModel |-> _extractDeviceFromName(productName),
     serviceType |-> _extractServiceType(productName),
     qualityType |-> _extractQualityType(productName),
     originalIndex |-> i,
     hasValidPrice |-> GreaterThanZero(price)]

\* The product of line i of the file.
Product(i, row) ==
    LET productName == Trim(Values(row)[1])
        price == _parsePrice(PriceColumn(row))
    IN  [id |-> ProductId(i, productName),
         name |-> productName,
         price |-> price,
         metadata |-> Metadata(i, productName, price),
         originalItem |-> Item(row)]

\* if (values[0] && values[0].trim()): a row whose first column is empty or
\* blank adds no item.
HasName(row) == Trim(Values(row)[1]) # <<>>

\* The rows _loadCSVData makes products of, in the order of the file; the
\* index i of a product is the number of its line.
RECURSIVE CsvProducts(_, _)
CsvProducts(rows, i) ==
    IF i > Len(rows) THEN <<>>
    ELSE (IF HasName(rows[i]) THEN <<Product(i, rows[i])>> ELSE <<>>)
         \o CsvProducts(rows, i + 1)

\* items.push(item)
RECURSIVE CsvItems(_)
CsvItems(rows) ==
    IF Len(rows) = 0 THEN <<>>
    ELSE (IF HasName(rows[1]) THEN <<Item(rows[1])>> ELSE <<>>)
         \o CsvItems(Tail(rows))

\* if (lines.length < 2) throw new Error('Invalid CSV: no data rows')
NoDataRows == "Invalid CSV: no data rows"

CsvError(rows) == IF Len(rows) = 0 THEN {NoDataRows} ELSE {}

\* The products Map after the rows of the file have been read.
LoadedProducts(rows) == MapSetAll(<<>>, CsvProducts(rows, 1))

(***************************************************************************)
(* The embedding provider.  A response is {} (error or timeout, so         *)
(* _generateEmbedding returns null) or {vector}.                           *)
(***************************************************************************)
ProductVectors == {<<1, 0>>, <<1, 5>>}

QueryVectors == {<<1, 0>>, <<0, 1>>}

ProviderError == [status |-> "error", embedding |-> <<>>]

\* The request runs into the client's timeout of 30000 ms.
ProviderTimeout == [status |-> "timeout", embedding |-> <<>>]

Responses(vectors) ==
    {ProviderError, ProviderTimeout}
        \cup {[status |-> "ok", embedding |-> v] : v \in vectors}

\* A provider whose failures are errors: to the code a timeout is one more
\* error (_generateEmbedding catches both and returns null).
ErrorOrAnswer(vectors) == Responses(vectors) \ {ProviderTimeout}

\* A provider that fails or answers, with the same vector for every text.
PlainResponses == {ProviderError, [status |-> "ok", embedding |-> <<1, 0>>]}

\* A provider that fails one of n requests and answers the others.
OneFailure(n) ==
    {[i \in 1..n |-> IF i = k THEN failure
                     ELSE [status |-> "ok", embedding |-> <<1, 0>>]] :
        <<k, failure>> \in (1..n) \X {ProviderError, ProviderTimeout}}

\* null is {}, an embedding e is {e}
_generateEmbedding(response) ==
    IF response.status = "ok" THEN {response.embedding} ELSE {}

(***************************************************************************)
(* _cosineSimilarity.  The similarity c = dot / (sqrt(normA) * sqrt(normB))*)
(* is kept as the fraction num / den = sign(dot) * dot^2 / (normA * normB),*)
(* which is c * |c|: it orders similarities as c does, and c > t for a     *)
(* threshold t > 0 exactly when num / den > t^2.                           *)
(***************************************************************************)
RECURSIVE Dot(_, _)
Dot(a, b) ==
    IF Len(a) = 0 THEN 0 ELSE a[1] * b[1] + Dot(Tail(a), Tail(b))

Zero == [num |-> 0, den |-> 1]

_cosineSimilarity(a, b) ==
    IF Len(a) # Len(b) THEN Zero
    ELSE LET dotProduct == Dot(a, b)
             normA == Dot(a, a)
             normB == Dot(b, b)
         IN  IF normA = 0 \/ normB = 0 THEN Zero
             ELSE [num |-> IF dotProduct < 0 THEN -(dotProduct * dotProduct)
                           ELSE dotProduct * dotProduct,
                   den |-> normA * normB]

\* similarity > percent / 100
SimilarityAbove(sim, percent) ==
    sim.num * 100 * 100 > percent * percent * sim.den

\* b._similarity - a._similarity > 0
SimilarityGreater(x, y) == x.num * y.den > y.num * x.den

MatchThreshold == 12

CloseThreshold == 25

(***************************************************************************)
(* _fallbackKeywordSearch                                                  *)
(***************************************************************************)
\* String.prototype.split(' ')
RECURSIVE Split(_, _)
Split(s, word) ==
    IF Len(s) = 0 THEN <<word>>
    ELSE IF IsSpace(s[1]) THEN <<word>> \o Split(Tail(s), <<>>)
    ELSE Split(Tail(s), Append(word, s[1]))

LongEnough(k) == Length(k) > 2

\* translations[keyword], <<>> when the table has no such key
Translation(keyword) ==
    CASE keyword = <<"screen">> -> <<"pantalla">>
      [] keyword = <<"battery">> -> <<"bateria">>
      [] keyword = <<"camera">> -> <<"camara">>
      [] keyword = <<"charging">> -> <<"carga">>
      [] keyword = <<"speaker">> -> <<"altavoz">>
      [] OTHER -> <<>>

HasTranslation(keyword) == Translation(keyword) # <<>>

\* The keywords of a query, the translated ones pushed after the others.
Keywords(query) ==
    LET keywords == Filter(Split(ToLowerCase(query), <<>>), LongEnough)
        translated == Filter(keywords, HasTranslation)
    IN  keywords \o [i \in 1..Len(translated) |-> Translation(translated[i])]

\* The number of keywords the product text includes.
RECURSIVE KeywordScore(_, _)
KeywordScore(productText, keywords) ==
    IF Len(keywords) = 0 THEN 0
    ELSE (IF Includes(productText, keywords[1]) THEN 1 ELSE 0)
         + KeywordScore(productText, Tail(keywords))

\* { ...product.originalItem, ... }
KeywordEntry(product, score) ==
    [_similarity |-> {},
     _score |-> {score},
     _productId |-> {},
     _metadata |-> product.metadata,
     _semanticMatch |-> {},
     _keywordMatch |-> {TRUE},
     _isApproximate |-> {},
     _exactModelRequested |-> {}]
        @@ product.originalItem

ScoreGreater(x, y) ==
    (CHOOSE n \in x._score : TRUE) > (CHOOSE n \in y._score : TRUE)

\* A test that wants two keywords in the name.
ScoredTwice(score) == score > 1

\* if (score > 0)
Scored(score) == score > 0

RECURSIVE KeywordMatches(_, _)
KeywordMatches(productList, keywords) ==
    IF Len(productList) = 0 THEN <<>>
    ELSE LET product == productList[1]
             score == KeywordScore(ToLowerCase(product.name), keywords)
         IN  (IF Scored(score) THEN <<KeywordEntry(product, score)>> ELSE <<>>)
             \o KeywordMatches(Tail(productList), keywords)

SortByScore(results) == StableSortDesc(results, ScoreGreater)

_fallbackKeywordSearch(productMap, query, maxResults) ==
    LET results == KeywordMatches(productMap, Keywords(query))
    IN  Slice(SortByScore(results), 0, maxResults)

(***************************************************************************)
(* searchProducts, after initialize()                                      *)
(***************************************************************************)
\* { ...product.originalItem, ... }
SemanticEntry(product, productId, similarity) ==
    [_similarity |-> {similarity},
     _score |-> {},
     _productId |-> {productId},
     _metadata |-> product.metadata,
     _semanticMatch |-> {TRUE},
     _keywordMatch |-> {},
     _isApproximate |-> {},
     _exactModelRequested |-> {}]
        @@ product.originalItem

Similarity(entry) == CHOOSE c \in entry._similarity : TRUE

\* The entries of the vector store whose similarity passes the threshold.
Similar(store, queryEmbedding) ==
    LET Passes(vectorData) ==
            SimilarityAbove(_cosineSimilarity(queryEmbedding, vectorData.embedding),
                            MatchThreshold)
    IN  Filter(store, Passes)

\* product.originalItem of a product that products.get did not find throws.
SearchThrows(productMap, store, queryEmbedding) ==
    \E i \in 1..Len(Similar(store, queryEmbedding)) :
        ~MapHas(productMap, Similar(store, queryEmbedding)[i].id)

Similarities(productMap, store, queryEmbedding) ==
    LET similar == Similar(store, queryEmbedding)
    IN  [i \in 1..Len(similar) |->
            SemanticEntry(MapGet(productMap, similar[i].id), similar[i].id,
                          _cosineSimilarity(queryEmbedding, similar[i].embedding))]

MoreSimilar(x, y) == SimilarityGreater(Similarity(x), Similarity(y))

\* The similarities left in the order of the vector store.
SortBySimilaritySkipped(similarities) == similarities

\* similarities.sort((a, b) => b._similarity - a._similarity)
SortBySimilarity(similarities) == StableSortDesc(similarities, MoreSimilar)

\* The second _filterByExactModel of the class, the one in effect.
_filterByExactModel(results, targetModel) ==
    LET Exact(item) ==
            LET deviceModel == ToLowerCase(item._metadata.deviceModel)
                targetLower == ToLowerCase(targetModel)
            IN  IF targetModel = Words(<<"iphone", "14">>)
                THEN /\ Includes(deviceModel, Words(<<"iphone", "14">>))
                     /\ ~Has(deviceModel, "pro")
                     /\ ~Has(deviceModel, "plus")
                ELSE IF targetModel = Words(<<"iphone", "14", "pro">>)
                THEN /\ Includes(deviceModel, Words(<<"iphone", "14">>))
                     /\ Has(deviceModel, "pro")
                     /\ ~Has(deviceModel, "max")
                ELSE Includes(deviceModel, targetLower)
    IN  Filter(results, Exact)

_findClosestAlternatives(similarities, requestedModel) ==
    LET requestedBrand == _extractBrand(requestedModel)
        requestedService == _extractServiceFromQuery(requestedModel)
        Close(item) ==
            \/ item._metadata.brand = requestedBrand
            \/ item._metadata.serviceType = requestedService
            \/ SimilarityAbove(Similarity(item), CloseThreshold)
    IN  Filter(similarities, Close)

\* A marking that sets the flag and forgets the requested model.
MarkApproximateFlagOnly(results, deviceModel) ==
    [i \in 1..Len(results) |-> [results[i] EXCEPT !._isApproximate = {TRUE}]]

\* results.forEach(result => { ... })
MarkApproximate(results, deviceModel) ==
    [i \in 1..Len(results) |->
        [results[i] EXCEPT !._isApproximate = {TRUE},
                           !._exactModelRequested = {deviceModel}]]

\* Lines 156-179: the exact model filter and the alternatives.
Refine(similarities, query) ==
    LET deviceModel == _extractExactDeviceModel(query)
        exactMatches == _filterByExactModel(similarities, deviceModel)
    IN  IF deviceModel # Unknown
        THEN IF Len(exactMatches) > 0 THEN exactMatches
             ELSE MarkApproximate(
                      _findClosestAlternatives(similarities, deviceModel),
                      deviceModel)
        ELSE similarities

\* A search that gives up when the query has no embedding.
searchProductsNoFallback(productMap, store, query, maxResults, response) ==
    LET queryEmbedding == _generateEmbedding(response)
        embedding == CHOOSE e \in queryEmbedding : TRUE
        similarities ==
            SortBySimilarity(Similarities(productMap, store, embedding))
    IN  IF Len(productMap) = 0 \/ queryEmbedding = {} THEN <<>>
        ELSE IF SearchThrows(productMap, store, embedding)
        THEN _fallbackKeywordSearch(productMap, query, maxResults)
        ELSE IF Len(similarities) = 0
        THEN _fallbackKeywordSearch(productMap, query, maxResults)
        ELSE Slice(Refine(similarities, query), 0, maxResults)

searchProducts(productMap, store, query, maxResults, response) ==
    LET queryEmbedding == _generateEmbedding(response)
        embedding == CHOOSE e \in queryEmbedding : TRUE
        similarities ==
            SortBySimilarity(Similarities(productMap, store, embedding))
    IN  IF Len(productMap) = 0 THEN <<>>
        ELSE IF queryEmbedding = {}
        THEN _fallbackKeywordSearch(productMap, query, maxResults)
        ELSE IF SearchThrows(productMap, store, embedding)
        THEN _fallbackKeywordSearch(productMap, query, maxResults)
        ELSE IF Len(similarities) = 0
        THEN _fallbackKeywordSearch(productMap, query, maxResults)
        ELSE Slice(Refine(similarities, query), 0, maxResults)

(***************************************************************************)
(* findAllQualityOptions(deviceModel, serviceType), the quality grouping.  *)
(* Its callers are in aiService.js; the function runs the matcher above    *)
(* on a query made of deviceModel and serviceType, keeps the results whose *)
(* brand, device model and service type are the target's, groups them by   *)
(* these three and sorts each group by price, ascending, the variants      *)
(* without a price last.                                                   *)
(***************************************************************************)
BroadTopN == 100

\* The synthetic query: deviceModel + ' ' + serviceType
QualityQuery(deviceModel, serviceType) == deviceModel \o <<SP>> \o serviceType

\* The derived brand, device model and service type of a text.
Combination(productName) ==
    <<_extractBrand(productName), _extractDeviceFromName(productName),
      _extractServiceType(productName)>>

CombinationOf(metadata) ==
    <<metadata.brand, metadata.deviceModel, metadata.serviceType>>

\* EnhancedAIService._extractValidPrice
_extractValidPrice(option) ==
    PriceOfFields(option, <<"PUBLICO TIENDA", "price", "precio", "cost",
                            "costo">>)

\* a < b for two numbers
LessThan(a, b) ==
    a.sign * a.num * Pow10(b.scale) < b.sign * b.num * Pow10(a.scale)

\* x goes before y: it has a price and y has none or a higher one.
Cheaper(x, y) ==
    LET priceX == _extractValidPrice(x)
        priceY == _extractValidPrice(y)
    IN  /\ GreaterThanZero(priceX)
        /\ ~GreaterThanZero(priceY) \/ LessThan(priceX, priceY)

SortByPrice(options) == StableSortDesc(options, Cheaper)

\* A variant of a group: the item and its quality tier.
QualityOption(entry) == [quality |-> entry._metadata.qualityType] @@ entry

\* The combinations of the entries, each once, in the order they turn up.
RECURSIVE Combinations(_)
Combinations(entries) ==
    IF Len(entries) = 0 THEN <<>>
    ELSE LET head == Combinations(SubSeq(entries, 1, Len(entries) - 1))
             last == CombinationOf(entries[Len(entries)]._metadata)
         IN  IF \E k \in 1..Len(head) : head[k] = last THEN head
             ELSE Append(head, last)

QualityGroup(entries, combination) ==
    LET InGroup(entry) == CombinationOf(entry._metadata) = combination
        members == Filter(entries, InGroup)
    IN  [brand |-> combination[1],
         device |-> combination[2],
         service |-> combination[3],
         options |-> SortByPrice([k \in 1..Len(members) |->
                                     QualityOption(members[k])])]

QualityGroups(entries) ==
    LET combinations == Combinations(entries)
    IN  [k \in 1..Len(combinations) |->
            QualityGroup(entries, combinations[k])]

findAllQualityOptions(productMap, store, deviceModel, serviceType, response) ==
    LET query == QualityQuery(deviceModel, serviceType)
        results ==
            searchProducts(productMap, store, query, BroadTopN, response)
        OnTarget(entry) == CombinationOf(entry._metadata) = Combination(query)
    IN  QualityGroups(Filter(results, OnTarget))

(***************************************************************************)
(* initialize(): _loadCSVData and _loadOrGenerateVectorStore               *)
(***************************************************************************)
VectorData(product, embedding) ==
    [id |-> product.id, embedding |-> embedding, metadata |-> product.metadata]

\* if (embedding) this.vectorStore.set(product.id, {...})
StoreEmbedding(store, product, response) ==
    LET embedding == _generateEmbedding(response)
    IN  IF embedding # {}
        THEN MapSet(store, VectorData(product, CHOOSE e \in embedding : TRUE))
        ELSE store

\* A batch that a failed request ends: the products after it get no request.
RECURSIVE GenerateBatchAborting(_, _, _)
GenerateBatchAborting(store, batch, responses) ==
    IF Len(batch) = 0 \/ responses[1].status # "ok" THEN store
    ELSE GenerateBatchAborting(StoreEmbedding(store, batch[1], responses[1]),
                               Tail(batch), Tail(responses))

\* for (const product of batch): responses[i] is the provider's answer to
\* the request for batch[i].
RECURSIVE GenerateBatch(_, _, _)
GenerateBatch(store, batch, responses) ==
    IF Len(batch) = 0 THEN store
    ELSE GenerateBatch(StoreEmbedding(store, batch[1], responses[1]),
                       Tail(batch), Tail(responses))

batchSize == 10

\* products.slice(i, i + batchSize)
Batch(list, i) ==
    SubSeq(list, i + 1,
           IF i + batchSize < Len(list) THEN i + batchSize ELSE Len(list))

\* for (let i = 0; i < products.length; i += batchSize)
RECURSIVE GenerateFrom(_, _, _, _)
GenerateFrom(store, productList, responses, i) ==
    IF i >= Len(productList) THEN store
    ELSE GenerateFrom(
             GenerateBatch(store, Batch(productList, i), Batch(responses, i)),
             productList, responses, i + batchSize)

\* _generateVectorsForProducts up to the save: the batches in turn.
GenerateVectors(store, productList, responses) ==
    GenerateFrom(store, productList, responses, 0)

\* The vector store as rebuilt from the cache file.
CachedStore(cache) ==
    IF cache = {} THEN <<>> ELSE MapSetAll(<<>>, CHOOSE c \in cache : TRUE)

\* Every product is requested again, whatever the cache holds.
NewProductsAll(rows, cache) == LoadedProducts(rows)

\* The products _loadOrGenerateVectorStore requests an embedding for.
NewProducts(rows, cache) ==
    LET store == CachedStore(cache)
        IsNew(product) == ~MapHas(store, product.id)
    IN  Filter(LoadedProducts(rows), IsNew)

\* The state initialize() leaves.  A file without data rows makes
\* _loadCSVData throw, and the catch block sets the empty pricing data.
Initialized(rows, cache, responses) ==
    IF CsvError(rows) # {}
    THEN [products |-> <<>>, vectorStore |-> <<>>, cache |-> cache,
          pricingData |-> {<<>>}]
    ELSE LET newProducts == NewProducts(rows, cache)
             store == GenerateVectors(CachedStore(cache), newProducts, responses)
         IN  [products |-> LoadedProducts(rows),
              vectorStore |-> store,
              cache |-> IF cache = {} \/ Len(newProducts) > 0
                        THEN {store} ELSE cache,
              pricingData |-> {CsvItems(rows)}]

\* What the provider may answer to n requests for product vectors.
ProviderAnswers(n) ==
    IF provider = "down" THEN {[i \in 1..n |-> ProviderError]}
    ELSE IF provider = "plain" THEN [1..n -> PlainResponses]
    ELSE IF provider = "flaky" THEN OneFailure(n)
    ELSE [1..n -> ErrorOrAnswer(ProductVectors)]

QueryAnswers ==
    IF provider = "down" THEN {ProviderError}
    ELSE IF provider = "up" THEN ErrorOrAnswer(QueryVectors)
    ELSE Responses(QueryVectors)

\* What is kept of an initialize() call: the process it ran in, whether it
\* got past the guard, the rows it read, the error _loadCSVData threw, the
\* name and id of every product it loaded, the ids it asked the provider to
\* embed and the provider's answers.
Ids(productList) == [i \in 1..Len(productList) |-> productList[i].id]

NamesAndIds(productList) ==
    [i \in 1..Len(productList) |->
        [name |-> productList[i].name, id |-> productList[i].id]]

Statuses(responses) == [i \in 1..Len(responses) |-> responses[i].status]

LoadPass(rows, cache, responses) ==
    [process |-> process,
     loading |-> TRUE,
     catalog |-> rows,
     error |-> CsvError(rows),
     loaded |-> IF CsvError(rows) # {} THEN <<>>
                ELSE NamesAndIds(LoadedProducts(rows)),
     requests |-> IF CsvError(rows) # {} THEN <<>>
                  ELSE Ids(NewProducts(rows, cache)),
     answers |-> IF CsvError(rows) # {} THEN <<>> ELSE Statuses(responses)]

\* if (this.isInitialized) return;
GuardedPass ==
    [process |-> process, loading |-> FALSE, catalog |-> csvFile,
     error |-> {}, loaded |-> <<>>, requests |-> <<>>, answers |-> <<>>]

\* The requests a load of the rows sends to the provider.
Requests(rows, cache) ==
    IF CsvError(rows) # {} THEN 0 ELSE Len(NewProducts(rows, cache))

\* getPricingData() -> initialize()
Initialize ==
    /\ ~isInitialized
    /\ \E responses \in ProviderAnswers(Requests(csvFile, vectorCacheFile)) :
           LET after == Initialized(csvFile, vectorCacheFile, responses)
           IN  /\ products' = after.products
               /\ vectorStore' = after.vectorStore
               /\ vectorCacheFile' = after.cache
               /\ pricingData' = after.pricingData
               /\ pass' = {LoadPass(csvFile, vectorCacheFile, responses)}
    /\ previous' = pass
    /\ isInitialized' = TRUE
    /\ UNCHANGED <<csvFile, provider, call, returned, process>>
    /\ UNCHANGED callerVars
    /\ UNCHANGED extractVars

\* searchProducts(query, maxResults).  The initialize() it awaits first is
\* the action Initialize (a no-op once isInitialized is set); this is the
\* rest of the handler, up to the value the call resolves with.
SearchCall(query, maxResults) ==
    /\ isInitialized
    /\ call = {}
    /\ \E response \in QueryAnswers :
           returned' = searchProducts(products, vectorStore, query, maxResults,
                                      response)
    /\ call' = {[query |-> query, maxResults |-> maxResults]}
    /\ UNCHANGED <<csvFile, vectorCacheFile, products, vectorStore,
                   pricingData, isInitialized, provider>>
    /\ UNCHANGED historyVars
    /\ UNCHANGED callerVars
    /\ UNCHANGED extractVars

\* The caller has taken the result; the service is ready for the next call.
Return ==
    /\ call # {}
    /\ call' = {}
    /\ returned' = <<>>
    /\ UNCHANGED <<csvFile, vectorCacheFile, products, vectorStore,
                   pricingData, isInitialized, provider>>
    /\ UNCHANGED historyVars
    /\ UNCHANGED callerVars
    /\ UNCHANGED extractVars

(***************************************************************************)
(* The catalogs and the queries of the model.                              *)
(***************************************************************************)
\* The callers of the service: the message handler, which searches, and a
\* route that reads the pricing data.
Callers == {"searchProducts", "getPricingData"}

IPhone14 == Words(<<"iPhone", "14", "pantalla">>)
IPhone14Pro == Words(<<"iPhone", "14", "Pro", "pantalla">>)
IPhone13Pro == Words(<<"iPhone", "13", "Pro", "bateria">>)
GalaxyS21 == Words(<<"Samsung", "Galaxy", "S21", "pantalla">>)

Names == {IPhone14, IPhone14Pro, IPhone13Pro, GalaxyS21}

Catalogs == UNION {[1..n -> Names] : n \in 0..MaxRows}

QueryIPhone14 == Words(<<"iPhone", "14", "pantalla">>)
QueryIPhone14Pro == Words(<<"iPhone", "14", "Pro", "pantalla">>)
QueryIPhone13 == Words(<<"iPhone", "13", "bateria">>)
QueryIPhone99 == Words(<<"iPhone", "99", "pantalla">>)
QueryHola == Words(<<"Hola">>)

Queries ==
    {QueryIPhone14, QueryIPhone14Pro, QueryIPhone13, QueryIPhone99, QueryHola}

\* The cache file a run over an earlier version of the catalog has left.
EarlierNames == {IPhone14, IPhone13Pro}

InitialCaches ==
    {{}} \cup {{<<VectorData(Product(1, n), <<1, 0>>)>>} : n \in EarlierNames}

\* No initialize() call yet, in the first process.
HistoryIdle ==
    /\ process = 1
    /\ pass = {}
    /\ previous = {}

\* No caller is inside an async call.
CallersIdle ==
    /\ pc = [c \in Callers |-> "idle"]
    /\ pending = [c \in Callers |-> <<>>]

\* No price is being extracted.
PriceIdle ==
    /\ catalogItem = <<>>
    /\ priced = {}
    /\ quoted = {}

\* The contacts of the model.
Contacts == {"c1", "c2"}

\* processPostAIActions: the results object before a step has run.  A null
\* is {}.
NewResults ==
    [tags |-> [success |-> FALSE, error |-> {}, data |-> {}],
     pipeline |-> [success |-> FALSE, error |-> {}, data |-> {}],
     overall |-> [success |-> FALSE, completedSteps |-> 0, totalSteps |-> 2]]

NoAttempts == [tags |-> <<>>, pipeline |-> <<>>]

\* No post-processing has been asked for.
ProcessorIdle ==
    /\ request = {}
    /\ postProcessResults = NewResults
    /\ attempt = 0
    /\ attempts = NoAttempts
    /\ step = "idle"
    /\ thrown = {}
    /\ tagCalls = <<>>
    /\ stageCalls = <<>>
    /\ tagsOnly = {}

\* No message is being processed.
MessageIdle ==
    /\ inbound = {}
    /\ msgStep = "idle"
    /\ sends = <<>>
    /\ tagging = <<>>

\* The conversation-memory directory is empty.
MemoryIdle ==
    /\ conversationFiles = [contactId \in Contacts |-> {}]
    /\ stored = [contactId \in Contacts |-> 0]
    /\ storeCall = {}

\* The server has been started and no message has come in.
QueueIdle ==
    /\ messageQueue = <<>>
    /\ processing = FALSE
    /\ immediates = 0
    /\ draining = <<>>
    /\ arrived = 0
    /\ handed = <<>>

ServerIdle ==
    /\ QueueIdle
    /\ ProcessorIdle
    /\ MessageIdle
    /\ MemoryIdle

ClassifierIdle ==
    /\ text = <<>>
    /\ analyzed = {}
    /\ loaded = {}
    /\ PriceIdle
    /\ qualityOptions = {}

ExtractIdle ==
    /\ ClassifierIdle
    /\ ServerIdle

Init ==
    /\ csvFile \in Catalogs
    /\ vectorCacheFile \in InitialCaches
    /\ products = <<>>
    /\ vectorStore = <<>>
    /\ pricingData = {}
    /\ isInitialized = FALSE
    /\ provider = "up"
    /\ call = {}
    /\ returned = <<>>
    /\ HistoryIdle
    /\ CallersIdle
    /\ ExtractIdle

Search == \E query \in Queries, maxResults \in 0..MaxLimit :
              SearchCall(query, maxResults)

Next == Initialize \/ Search \/ Return

Spec == Init /\ [][Next]_vars

(***************************************************************************)
(* The engine with the embedding provider failing on every call, over      *)
(* catalogs large enough for the default maxResults to matter: one row     *)
(* that names the iPhone 13 battery among rows for another device.         *)
(***************************************************************************)
\* async searchProducts(query, maxResults = 20)
DefaultMaxResults == 20

IPhone12Bateria == Words(<<"iPhone", "12", "bateria">>)
IPhone13Bateria == Words(<<"iPhone", "13", "bateria">>)
IPhone13Battery == Words(<<"iPhone", "13", "battery">>)

OtherRows == {IPhone12Bateria, GalaxyS21}

BatteryRows == {IPhone13Bateria, IPhone13Battery}

Repeat(row, n) == [i \in 1..n |-> row]

BigCatalogs ==
    {Repeat(other, before) \o <<row>> \o Repeat(other, after) :
        <<other, row, before, after>> \in
            {x \in OtherRows \X BatteryRows \X (0..MaxBigRows) \X (0..MaxBigRows) :
                x[3] + x[4] + 1 <= MaxBigRows}}

QueryIPhone13Battery == Words(<<"iPhone", "13", "battery">>)

FallbackQueries == {QueryIPhone13, QueryIPhone13Battery}

FallbackInit ==
    /\ csvFile \in BigCatalogs
    /\ vectorCacheFile = {}
    /\ products = <<>>
    /\ vectorStore = <<>>
    /\ pricingData = {}
    /\ isInitialized = FALSE
    /\ provider = "down"
    /\ call = {}
    /\ returned = <<>>
    /\ HistoryIdle
    /\ CallersIdle
    /\ ExtractIdle

\* searchProducts(query)
SearchDefault == \E query \in FallbackQueries :
                     SearchCall(query, DefaultMaxResults)

FallbackNext == Initialize \/ SearchDefault \/ Return

FallbackSpec == FallbackInit /\ [][FallbackNext]_vars

(***************************************************************************)
(* The life of the index over calls and restarts: initialize() is called   *)
(* again in a process that has initialized, the process is restarted, and  *)
(* pricing.csv is rewritten meanwhile.                                     *)
(***************************************************************************)
MaxProcesses == 2

\* A line whose first column is empty, such as ",1200".
NoName == <<>>

ReloadCatalogs ==
    {<<>>, <<NoName>>, <<IPhone14>>, <<IPhone14, IPhone13Pro>>,
     <<IPhone13Pro, IPhone14>>, <<NoName, IPhone14>>}

\* initialize() in a process that has initialized: the guard returns.
InitializeAgain ==
    /\ isInitialized
    /\ pass' = {GuardedPass}
    /\ previous' = pass
    /\ UNCHANGED <<csvFile, vectorCacheFile, products, vectorStore,
                   pricingData, isInitialized, provider, call, returned,
                   process>>
    /\ UNCHANGED callerVars
    /\ UNCHANGED extractVars

\* The process ends and a new one constructs the service (lines 6-23); the
\* two files stay as they are.
Restart ==
    /\ process < MaxProcesses
    /\ process' = process + 1
    /\ products' = <<>>
    /\ vectorStore' = <<>>
    /\ pricingData' = {}
    /\ isInitialized' = FALSE
    /\ call' = {}
    /\ returned' = <<>>
    /\ UNCHANGED <<csvFile, vectorCacheFile, provider, pass, previous>>
    /\ UNCHANGED callerVars
    /\ UNCHANGED extractVars

\* The operator replaces pricing.csv.
WriteCatalog ==
    /\ \E rows \in ReloadCatalogs \ {csvFile} : csvFile' = rows
    /\ UNCHANGED <<vectorCacheFile, products, vectorStore, pricingData,
                   isInitialized, provider, call, returned>>
    /\ UNCHANGED historyVars
    /\ UNCHANGED callerVars
    /\ UNCHANGED extractVars

ReloadInit ==
    /\ csvFile \in ReloadCatalogs
    /\ vectorCacheFile = {}
    /\ products = <<>>
    /\ vectorStore = <<>>
    /\ pricingData = {}
    /\ isInitialized = FALSE
    /\ provider = "plain"
    /\ call = {}
    /\ returned = <<>>
    /\ HistoryIdle
    /\ CallersIdle
    /\ ExtractIdle

ReloadNext == Initialize \/ InitializeAgain \/ Restart \/ WriteCatalog

ReloadSpec == ReloadInit /\ [][ReloadNext]_vars

(***************************************************************************)
(* Searches over an index that a later process has rebuilt from the cache  *)
(* file and extended: the provider fails or answers, with one vector for   *)
(* every text, so that all the semantic results tie.                       *)
(***************************************************************************)
RebuildCatalogs == UNION {[1..n -> {IPhone14, IPhone14Pro}] : n \in 1..MaxRows}

RebuildInit ==
    /\ csvFile \in RebuildCatalogs
    /\ vectorCacheFile = {}
    /\ products = <<>>
    /\ vectorStore = <<>>
    /\ pricingData = {}
    /\ isInitialized = FALSE
    /\ provider = "plain"
    /\ call = {}
    /\ returned = <<>>
    /\ HistoryIdle
    /\ CallersIdle
    /\ ExtractIdle

SearchRebuilt == \E query \in {QueryIPhone14, QueryIPhone14Pro} :
                     SearchCall(query, DefaultMaxResults)

RebuildNext == Initialize \/ Restart \/ SearchRebuilt \/ Return

RebuildSpec == RebuildInit /\ [][RebuildNext]_vars

(***************************************************************************)
(* The index built over catalogs of more than one batch, one request of    *)
(* the build failing.                                                      *)
(***************************************************************************)
\* The catalogs of one batch and one or two products more.
BatchCatalogs ==
    {rows \in BigCatalogs : Len(rows) \in {batchSize + 1, batchSize + 2}}

BatchInit ==
    /\ csvFile \in BatchCatalogs
    /\ vectorCacheFile = {}
    /\ products = <<>>
    /\ vectorStore = <<>>
    /\ pricingData = {}
    /\ isInitialized = FALSE
    /\ provider = "flaky"
    /\ call = {}
    /\ returned = <<>>
    /\ HistoryIdle
    /\ CallersIdle
    /\ ExtractIdle

BatchNext == Initialize \/ InitializeAgain

BatchSpec == BatchInit /\ [][BatchNext]_vars

(***************************************************************************)
(* The async calls step by step.  A caller runs from one await that waits  *)
(* for the provider or for the timer to the next without interruption;     *)
(* between two such steps of one caller the other caller may run.  The     *)
(* awaits of functions that finish synchronously (_loadCSVData,            *)
(* _saveVectorCache) give way to no provider answer and no new call and    *)
(* are joined with the step after them.                                    *)
(*   idle       the caller has not called yet                              *)
(*   embedding  in initialize(), awaiting _generateEmbedding(product.name) *)
(*   pausing    in initialize(), awaiting the 150 ms timer                 *)
(*   finishing  the vector store is done, isInitialized is not yet set     *)
(*   ready      initialize() has returned to the caller                    *)
(*   querying   in searchProducts, awaiting _generateEmbedding(query)      *)
(*   returned   the call has resolved                                      *)
(***************************************************************************)
Searcher == "searchProducts"

Loading == {"embedding", "pausing", "finishing"}

ConcurrentCatalogs == {<<>>, <<IPhone14>>, <<IPhone14, IPhone14Pro>>}

ConcurrentQueries == {QueryIPhone14, QueryHola}

\* The limits of the callers: part_001 line 21 and the default.
ConcurrentLimits == {5, DefaultMaxResults}

\* The vector store once the cache file, if there is one, has been read.
StoreWithCache(store, cache) ==
    IF cache = {} THEN store ELSE MapSetAll(store, CHOOSE c \in cache : TRUE)

\* The products to embed: the ones without a vector when there is a cache
\* file, all of them when there is none.
ProductsToEmbed(productMap, store, cache) ==
    LET IsNew(product) == ~MapHas(store, product.id)
    IN  IF cache = {} THEN productMap ELSE Filter(productMap, IsNew)

\* products.length stays as it is: the same product is requested again.
RestStuck(productList) == productList

\* The loop goes on to the next product.
Rest(productList) == Tail(productList)

\* The caller calls searchProducts or getPricingData, which calls
\* initialize(): the guard, _loadCSVData and _loadOrGenerateVectorStore up to
\* the first request.
Enter(c) ==
    /\ pc[c] = "idle"
    /\ IF isInitialized
       THEN /\ pc' = [pc EXCEPT ![c] = "ready"]
            /\ UNCHANGED <<products, vectorStore, vectorCacheFile,
                           pricingData, isInitialized, pending>>
       ELSE IF CsvError(csvFile) # {}
       THEN /\ pricingData' = {<<>>}
            /\ isInitialized' = TRUE
            /\ pc' = [pc EXCEPT ![c] = "ready"]
            /\ UNCHANGED <<products, vectorStore, vectorCacheFile, pending>>
       ELSE LET productMap == MapSetAll(products, CsvProducts(csvFile, 1))
                store == StoreWithCache(vectorStore, vectorCacheFile)
                toEmbed == ProductsToEmbed(productMap, store, vectorCacheFile)
            IN  /\ products' = productMap
                /\ pricingData' = {CsvItems(csvFile)}
                /\ vectorStore' = store
                /\ pending' = [pending EXCEPT ![c] = toEmbed]
                /\ vectorCacheFile' =
                       IF vectorCacheFile = {} /\ Len(toEmbed) = 0
                       THEN {store} ELSE vectorCacheFile
                /\ pc' = [pc EXCEPT ![c] = IF Len(toEmbed) = 0
                                           THEN "finishing" ELSE "embedding"]
                /\ UNCHANGED isInitialized
    /\ UNCHANGED <<csvFile, provider, call, returned>>
    /\ UNCHANGED historyVars
    /\ UNCHANGED extractVars

\* The provider answers the request for the first pending product, or the
\* request fails.
Embedded(c) ==
    /\ pc[c] = "embedding"
    /\ \E responses \in ProviderAnswers(1) :
           vectorStore' = StoreEmbedding(vectorStore, pending[c][1],
                                         responses[1])
    /\ pc' = [pc EXCEPT ![c] = "pausing"]
    /\ UNCHANGED <<csvFile, vectorCacheFile, products, pricingData,
                   isInitialized, provider, call, returned, pending>>
    /\ UNCHANGED historyVars
    /\ UNCHANGED extractVars

\* The timer fires: the next request, or _saveVectorCache after the last.
Paused(c) ==
    /\ pc[c] = "pausing"
    /\ pending' = [pending EXCEPT ![c] = Rest(pending[c])]
    /\ IF Len(pending'[c]) = 0
       THEN /\ vectorCacheFile' = {vectorStore}
            /\ pc' = [pc EXCEPT ![c] = "finishing"]
       ELSE /\ pc' = [pc EXCEPT ![c] = "embedding"]
            /\ UNCHANGED vectorCacheFile
    /\ UNCHANGED <<csvFile, products, vectorStore, pricingData,
                   isInitialized, provider, call, returned>>
    /\ UNCHANGED historyVars
    /\ UNCHANGED extractVars

\* this.isInitialized = true, and initialize() returns.
Finish(c) ==
    /\ pc[c] = "finishing"
    /\ isInitialized' = TRUE
    /\ pc' = [pc EXCEPT ![c] = "ready"]
    /\ UNCHANGED <<csvFile, vectorCacheFile, products, vectorStore,
                   pricingData, provider, call, returned, pending>>
    /\ UNCHANGED historyVars
    /\ UNCHANGED extractVars

\* searchProducts after initialize(): no products, or the request for the
\* embedding of the query.
Query(c) ==
    /\ c = Searcher
    /\ pc[c] = "ready"
    /\ \E query \in ConcurrentQueries, maxResults \in ConcurrentLimits :
           call' = {[query |-> query, maxResults |-> maxResults,
                     outcome |-> "none"]}
    /\ IF Len(products) = 0
       THEN pc' = [pc EXCEPT ![c] = "returned"]
       ELSE pc' = [pc EXCEPT ![c] = "querying"]
    /\ returned' = <<>>
    /\ UNCHANGED <<csvFile, vectorCacheFile, products, vectorStore,
                   pricingData, isInitialized, provider, pending>>
    /\ UNCHANGED historyVars
    /\ UNCHANGED extractVars

\* The provider answers the request for the query, or the request fails;
\* the rest of searchProducts runs to its return.
Answer(c) ==
    /\ pc[c] = "querying"
    /\ \E response \in QueryAnswers : \E k \in call :
           /\ returned' = searchProducts(products, vectorStore, k.query,
                                         k.maxResults, response)
           /\ call' = {[k EXCEPT !.outcome = response.status]}
    /\ pc' = [pc EXCEPT ![c] = "returned"]
    /\ UNCHANGED <<csvFile, vectorCacheFile, products, vectorStore,
                   pricingData, isInitialized, provider, pending>>
    /\ UNCHANGED historyVars
    /\ UNCHANGED extractVars

\* getPricingData: return this.pricingData
ReturnPricingData(c) ==
    /\ c # Searcher
    /\ pc[c] = "ready"
    /\ pc' = [pc EXCEPT ![c] = "returned"]
    /\ UNCHANGED <<csvFile, vectorCacheFile, products, vectorStore,
                   pricingData, isInitialized, provider, call, returned,
                   pending>>
    /\ UNCHANGED historyVars
    /\ UNCHANGED extractVars

CallerStep(c) ==
    \/ Enter(c)
    \/ Embedded(c)
    \/ Paused(c)
    \/ Finish(c)
    \/ Query(c)
    \/ Answer(c)
    \/ ReturnPricingData(c)

ConcurrentInit ==
    /\ csvFile \in ConcurrentCatalogs
    /\ vectorCacheFile \in InitialCaches
    /\ products = <<>>
    /\ vectorStore = <<>>
    /\ pricingData = {}
    /\ isInitialized = FALSE
    /\ provider = "plain"
    /\ call = {}
    /\ returned = <<>>
    /\ HistoryIdle
    /\ CallersIdle
    /\ ExtractIdle

ConcurrentNext == \E c \in Callers : CallerStep(c)

ConcurrentSpec == ConcurrentInit /\ [][ConcurrentNext]_vars

Locations ==
    {"idle", "embedding", "pausing", "finishing", "ready", "querying",
     "returned"}

\* The event loop runs the next step of a caller that has not returned: the
\* caller is at another await, or has returned, afterwards.  Every step of
\* a caller in ConcurrentNext is such a step.
Resumed(c) ==
    /\ pc[c] # "returned"
    /\ \E location \in Locations \ {pc[c]} :
           pc' = [pc EXCEPT ![c] = location]

\* Every provider request and every timer comes back, and the event loop
\* runs the continuation of each caller.
LiveSpec ==
    ConcurrentSpec /\ \A c \in Callers : WF_pc(Resumed(c))

(***************************************************************************)
(* The classifiers as a state machine: a text is handed to the query       *)
(* analyzer and to the loader.                                             *)
(***************************************************************************)
TextAtoms ==
    {"iphone", SP, "13", "14", "15", "pro", "Pro", "max", "plus", "mini",
     "pantalla"}

\* Every text of up to MaxTextLen atoms, and every text of up to MaxWords words
\* with one blank between them, the way product names are written.
FreeTexts == UNION {[1..n -> TextAtoms] : n \in 0..MaxTextLen}

SpacedTexts ==
    {Words(ws) : ws \in UNION {[1..n -> TextAtoms \ {SP}] : n \in 1..MaxWords}}

Texts == FreeTexts \cup SpacedTexts

\* The engine before construction has loaded anything.
EngineIdle ==
    /\ csvFile = <<>>
    /\ vectorCacheFile = {}
    /\ products = <<>>
    /\ vectorStore = <<>>
    /\ pricingData = {}
    /\ isInitialized = FALSE
    /\ provider = "up"
    /\ call = {}
    /\ returned = <<>>
    /\ HistoryIdle
    /\ CallersIdle

ExtractInit ==
    /\ text \in Texts
    /\ analyzed = {}
    /\ loaded = {}
    /\ PriceIdle
    /\ qualityOptions = {}
    /\ ServerIdle
    /\ EngineIdle

\* _extractExactDeviceModel(text)
Analyze ==
    /\ analyzed = {}
    /\ analyzed' = {_extractExactDeviceModel(text)}
    /\ UNCHANGED <<text, loaded, qualityOptions>>
    /\ UNCHANGED priceVars
    /\ UNCHANGED serverVars
    /\ UNCHANGED engineVars

\* metadata.deviceModel = _extractDeviceFromName(text), as in _loadCSVData
LoadName ==
    /\ loaded = {}
    /\ loaded' = {_extractDeviceFromName(text)}
    /\ UNCHANGED <<text, analyzed, qualityOptions>>
    /\ UNCHANGED priceVars
    /\ UNCHANGED serverVars
    /\ UNCHANGED engineVars

ExtractNext == Analyze \/ LoadName

ExtractSpec == ExtractInit /\ [][ExtractNext]_vars

(***************************************************************************)
(* Price extraction on its own: an item of the catalog is handed to        *)
(* FixedPricingService._getProductText and to one line of                  *)
(* FixedAIService._createProductsText.                                     *)
(***************************************************************************)
PriceChars == {"0", "5", ".", "-", "N", "/", "A", "$", SP}

RECURSIVE PriceTextsOfLen(_)
PriceTextsOfLen(n) ==
    IF n = 0 THEN {<<>>}
    ELSE {Append(s, c) : s \in PriceTextsOfLen(n - 1), c \in PriceChars}

\* The values of a price column: _loadCSVData trims them.
PriceTexts ==
    {s \in UNION {PriceTextsOfLen(n) : n \in 0..MaxPriceLen} : Trim(s) = s}
        \cup {<<"a", "b", "c">>}

\* Second price columns: one that holds a price and some that hold none.
OtherPrices == {<<"5">>, <<"0">>, <<"N", "/", "A">>}

ProdOnly == "Prod" :> IPhone14

\* The items of a catalog with the columns Prod and PUBLICO TIENDA, and
\* those of one that has a column precio as well.
Items ==
    {ProdOnly @@ ("PUBLICO TIENDA" :> t) : t \in PriceTexts}
        \cup {ProdOnly @@ ("PUBLICO TIENDA" :> t) @@ ("precio" :> u) :
                  t \in {<<>>, <<"0">>, <<"N", "/", "A">>, <<"a", "b", "c">>,
                         <<"5">>},
                  u \in OtherPrices}

PriceInit ==
    /\ catalogItem \in Items
    /\ priced = {}
    /\ quoted = {}
    /\ text = <<>>
    /\ analyzed = {}
    /\ loaded = {}
    /\ qualityOptions = {}
    /\ ServerIdle
    /\ EngineIdle

\* _getProductText(item), which calls _getPrice(item)
GetProductText ==
    /\ priced = {}
    /\ priced' = {[value |-> _getPrice(catalogItem),
                   shown |-> _getProductText(catalogItem)]}
    /\ UNCHANGED <<catalogItem, quoted>>
    /\ UNCHANGED <<text, analyzed, loaded, qualityOptions>>
    /\ UNCHANGED serverVars
    /\ UNCHANGED engineVars

\* The line of _createProductsText for item, which calls _getPrice(item)
CreateProductsText ==
    /\ quoted = {}
    /\ quoted' = {[value |-> aiService_getPrice(catalogItem),
                   shown |-> _createProductsText(catalogItem)]}
    /\ UNCHANGED <<catalogItem, priced>>
    /\ UNCHANGED <<text, analyzed, loaded, qualityOptions>>
    /\ UNCHANGED serverVars
    /\ UNCHANGED engineVars

PriceNext == GetProductText \/ CreateProductsText

PriceSpec == PriceInit /\ [][PriceNext]_vars

(***************************************************************************)
(* The quality grouping, over catalogs whose rows are the quality variants *)
(* of a screen repair, each with its price column.                         *)
(***************************************************************************)
Priced(productName, priceStr) == productName \o <<",">> \o priceStr

Original14 ==
    Priced(Words(<<"iPhone", "14", "pantalla", "original">>), <<"5", "0">>)

Incell14 == Priced(Words(<<"iPhone", "14", "pantalla", "incell">>), <<"5">>)

Oled14 ==
    Priced(Words(<<"iPhone", "14", "pantalla", "oled">>), <<"N", "/", "A">>)

Original14Pro ==
    Priced(Words(<<"iPhone", "14", "Pro", "pantalla", "original">>),
           <<"5", "5">>)

QualityRows == {Original14, Incell14, Oled14, Original14Pro}

\* The catalogs of up to MaxVariants rows, no row twice.
QualityCatalogs ==
    {rows \in UNION {[1..n -> QualityRows] : n \in 0..MaxVariants} :
        \A i, j \in 1..Len(rows) : rows[i] = rows[j] => i = j}

QualityTargets ==
    {[deviceModel |-> Words(<<"iphone", "14">>), serviceType |-> <<"pantalla">>],
     [deviceModel |-> Words(<<"iphone", "14", "pro">>),
      serviceType |-> <<"pantalla">>]}

QualityInit ==
    /\ csvFile \in QualityCatalogs
    /\ vectorCacheFile = {}
    /\ products = <<>>
    /\ vectorStore = <<>>
    /\ pricingData = {}
    /\ isInitialized = FALSE
    /\ provider = "up"
    /\ call = {}
    /\ returned = <<>>
    /\ HistoryIdle
    /\ CallersIdle
    /\ ExtractIdle

\* findAllQualityOptions(deviceModel, serviceType), after initialize()
FindAllQualityOptions ==
    /\ isInitialized
    /\ qualityOptions = {}
    /\ \E target \in QualityTargets, response \in QueryAnswers :
           qualityOptions' =
               {[deviceModel |-> target.deviceModel,
                 serviceType |-> target.serviceType,
                 groups |-> findAllQualityOptions(
                                products, vectorStore, target.deviceModel,
                                target.serviceType, response)]}
    /\ UNCHANGED <<text, analyzed, loaded>>
    /\ UNCHANGED priceVars
    /\ UNCHANGED serverVars
    /\ UNCHANGED engineVars

QualityNext == Initialize \/ FindAllQualityOptions

QualitySpec == QualityInit /\ [][QualityNext]_vars

(***************************************************************************)
(* The message queue of the server (src/unnamed/part_003, lines 358-398).  *)
(* A message is the number of its arrival.  Node runs one callback at a    *)
(* time, so a step is the code between two awaits: addToQueue as a whole,  *)
(* processMessageQueue from its guard to the first await, and the loop     *)
(* from the end of one processMessage call to the next await or the exit.  *)
(***************************************************************************)
\* A queue that takes the new message at its front.
PushFront(queue, message) == <<message>> \o queue

\* messageQueue.push(message)
Push(queue, message) == Append(queue, message)

\* A guard that looks at the queue only.
QueueEmpty(flag, queue) == Len(queue) = 0

\* if (processing || messageQueue.length === 0) return
Busy(flag, queue) == flag \/ Len(queue) = 0

Running(message) == [message |-> message, outcome |-> "running"]

\* The call for the message has ended with the outcome.
Ended(log, message, outcome) ==
    [i \in 1..Len(log) |->
        IF log[i] = Running(message)
        THEN [message |-> message, outcome |-> outcome]
        ELSE log[i]]

RemoveAt(s, k) == SubSeq(s, 1, k - 1) \o SubSeq(s, k + 1, Len(s))

\* addToQueue(message)
AddToQueue ==
    /\ arrived < MaxMessages
    /\ arrived' = arrived + 1
    /\ messageQueue' = Push(messageQueue, arrived + 1)
    /\ immediates' = immediates + 1
    /\ UNCHANGED <<processing, draining, handed>>
    /\ UNCHANGED serviceVars
    /\ UNCHANGED classifierVars
    /\ UNCHANGED engineVars

\* The event loop runs a callback of setImmediate: processMessageQueue, to
\* its return or to the await of the first processMessage call.
ProcessMessageQueue ==
    /\ immediates > 0
    /\ immediates' = immediates - 1
    /\ IF Busy(processing, messageQueue)
       THEN UNCHANGED <<messageQueue, processing, draining, handed>>
       ELSE /\ processing' = TRUE
            /\ messageQueue' = Tail(messageQueue)
            /\ draining' = Append(draining, Head(messageQueue))
            /\ handed' = Append(handed, Running(Head(messageQueue)))
    /\ UNCHANGED arrived
    /\ UNCHANGED serviceVars
    /\ UNCHANGED classifierVars
    /\ UNCHANGED engineVars

\* The processMessage call of drain loop k resolves or throws; the catch
\* logs the error and the loop goes on to the next message or ends.
Settle(k, outcome) ==
    /\ k \in 1..Len(draining)
    /\ IF Len(messageQueue) > 0
       THEN /\ messageQueue' = Tail(messageQueue)
            /\ draining' = [draining EXCEPT ![k] = Head(messageQueue)]
            /\ handed' = Append(Ended(handed, draining[k], outcome),
                                Running(Head(messageQueue)))
            /\ UNCHANGED processing
       ELSE /\ processing' = FALSE
            /\ draining' = RemoveAt(draining, k)
            /\ handed' = Ended(handed, draining[k], outcome)
            /\ UNCHANGED messageQueue
    /\ UNCHANGED <<immediates, arrived>>
    /\ UNCHANGED serviceVars
    /\ UNCHANGED classifierVars
    /\ UNCHANGED engineVars

ProcessMessageEnds ==
    \E k \in 1..Len(draining), outcome \in {"ok", "threw"} : Settle(k, outcome)

QueueInit ==
    /\ ExtractIdle
    /\ EngineIdle

QueueNext == AddToQueue \/ ProcessMessageQueue \/ ProcessMessageEnds

QueueSpec == QueueInit /\ [][QueueNext]_vars

\* The event loop runs every callback that is due, and every
\* processMessage call comes to an end.
QueueLiveSpec ==
    /\ QueueSpec
    /\ WF_queueVars(ProcessMessageQueue)
    /\ WF_queueVars(ProcessMessageEnds)

(***************************************************************************)
(* The fault-tolerant processor (src/services/faultTolerantProcessor.js)   *)
(* and the tag service it calls (src/services/tagService.js).  A value of  *)
(* JavaScript that may be null, undefined or absent is {} or {the value}.  *)
(* The tags are the list that generateTagsFromClassification makes of the  *)
(* classification; the function is deterministic, so a call is given the   *)
(* list.  opportunityService.updateStage resolves with true or false, or   *)
(* rejects.  A step is the code between two awaits.                        *)
(***************************************************************************)
\* _processTagsWithRetry and _processPipelineWithRetry: maxRetries = 2
maxRetries == 2

\* addTags: const maxRetries = 3
addTagsMaxRetries == 3

ContactIds == Contacts \cup {""}

TagLists == {<<>>, <<"iPhone">>, <<"iPhone", "Pantalla">>}

\* How the axios.post of each attempt of one addTags call ends.
Posts == [1..addTagsMaxRetries -> {"ok", "failed"}]

StageOutcomes == {"true", "false", "threw"}

\* return { success: false, error: 'Invalid parameters' }
InvalidParameters ==
    [success |-> FALSE, error |-> {"Invalid parameters"}, tags_added |-> {},
     attempt |-> {}, final_attempt |-> {}]

\* return { success: true, data, tags_added: tags, attempt: attempt + 1 }
TagsAdded(tags, n) ==
    [success |-> TRUE, error |-> {}, tags_added |-> {tags},
     attempt |-> {n}, final_attempt |-> {}]

\* return { success: false, error: 'All 3 attempts failed...',
\*          final_attempt: true }
AllAttemptsFailed ==
    [success |-> FALSE, error |-> {"All attempts failed"}, tags_added |-> {},
     attempt |-> {}, final_attempt |-> {TRUE}]

\* The while loop of addTags from the attempt after the n-th.
RECURSIVE addTagsFrom(_, _, _, _)
addTagsFrom(contactId, tags, posts, n) ==
    IF contactId = "" \/ Len(tags) = 0
    THEN InvalidParameters
    ELSE IF posts[n + 1] = "ok"
         THEN TagsAdded(tags, n + 1)
         ELSE IF n + 1 >= addTagsMaxRetries
              THEN AllAttemptsFailed
              ELSE addTagsFrom(contactId, tags, posts, n + 1)

addTags(contactId, tags, posts) == addTagsFrom(contactId, tags, posts, 0)

\* if (tagResult), !!result: null, undefined and false are {}; an object is
\* truthy whatever its fields hold.
Truthy(value) == value # {}

CompletedSteps(r) ==
    (IF r.tags.success THEN 1 ELSE 0) + (IF r.pipeline.success THEN 1 ELSE 0)

\* A processor that calls the work done when both steps succeeded.
OverallBoth(r) ==
    [r EXCEPT !.overall.completedSteps = CompletedSteps(r),
              !.overall.success = CompletedSteps(r) > 1]

\* results.overall.completedSteps = ...; results.overall.success = ... > 0
Overall(r) ==
    [r EXCEPT !.overall.completedSteps = CompletedSteps(r),
              !.overall.success = CompletedSteps(r) > 0]

\* A loop that gives up one attempt early.
GivesUpEarly(n) == n >= maxRetries

\* catch: attempt++; if (attempt > maxRetries) { ...; throw error; }
GivesUp(n) == n > maxRetries

Request == CHOOSE r \in request : TRUE

\* processPostAIActions(contactId, aiClassification, options), to the await
\* of the first attempt of the tag step.
Called(contactId, tags) ==
    /\ request' = {[contactId |-> contactId, tags |-> tags]}
    /\ postProcessResults' = NewResults
    /\ attempt' = 0
    /\ attempts' = NoAttempts
    /\ step' = "tags"
    /\ thrown' = {}

ProcessPostAIActions ==
    /\ step = "idle"
    /\ request = {}
    /\ \E contactId \in ContactIds, tags \in TagLists : Called(contactId, tags)
    /\ UNCHANGED <<tagCalls, stageCalls, tagsOnly>>
    /\ UNCHANGED <<queueVars, messageVars, memoryVars>>
    /\ UNCHANGED classifierVars
    /\ UNCHANGED engineVars

\* An attempt of a retry loop has thrown: the catch of the loop, and the
\* catch of processPostAIActions when the loop throws in its turn.
AttemptFailed(loop, message, next) ==
    /\ attempts' = [attempts EXCEPT ![loop] = Append(@, "failed")]
    /\ IF GivesUp(attempt + 1)
       THEN /\ postProcessResults' =
                   IF next = "done"
                   THEN Overall([postProcessResults EXCEPT
                                    ![loop].error = {message}])
                   ELSE [postProcessResults EXCEPT ![loop].error = {message}]
            /\ thrown' = thrown \cup {loop}
            /\ step' = next
            /\ attempt' = 0
       ELSE /\ attempt' = attempt + 1
            /\ UNCHANGED <<postProcessResults, thrown, step>>

\* One attempt of _processTagsWithRetry, from the end of its wait to the
\* end of the addTags call and what the loop makes of it.
TagsAttempt ==
    /\ step = "tags"
    /\ IF Len(Request.tags) = 0
       THEN /\ postProcessResults' =
                   [postProcessResults EXCEPT !.tags.success = TRUE]
            /\ attempts' = [attempts EXCEPT !.tags = Append(@, "succeeded")]
            /\ step' = "pipeline"
            /\ attempt' = 0
            /\ UNCHANGED <<thrown, tagCalls>>
       ELSE \E posts \in Posts :
                LET tagResult == {addTags(Request.contactId, Request.tags,
                                          posts)}
                IN  /\ tagCalls' = Append(tagCalls, tagResult)
                    /\ IF Truthy(tagResult)
                       THEN /\ postProcessResults' =
                                   [postProcessResults EXCEPT
                                       !.tags.success = TRUE,
                                       !.tags.data =
                                           {[tags |-> Request.tags,
                                             tagResult |-> tagResult]}]
                            /\ attempts' =
                                   [attempts EXCEPT
                                       !.tags = Append(@, "succeeded")]
                            /\ step' = "pipeline"
                            /\ attempt' = 0
                            /\ UNCHANGED thrown
                       ELSE AttemptFailed(
                                "tags", "Tag service returned null/false",
                                "pipeline")
    /\ UNCHANGED <<request, stageCalls, tagsOnly>>
    /\ UNCHANGED <<queueVars, messageVars, memoryVars>>
    /\ UNCHANGED classifierVars
    /\ UNCHANGED engineVars

\* One attempt of _processPipelineWithRetry, from the end of its wait to
\* the end of the updateStage call and what the loop makes of it; after the
\* last attempt, processPostAIActions to its return.
PipelineAttempt ==
    /\ step = "pipeline"
    /\ \E outcome \in StageOutcomes :
           /\ stageCalls' = Append(stageCalls, outcome)
           /\ IF outcome = "true"
              THEN /\ postProcessResults' =
                          Overall([postProcessResults EXCEPT
                                      !.pipeline.success = TRUE,
                                      !.pipeline.data =
                                          {[stage |-> "IA Diagnostico enviado",
                                            updated |-> TRUE]}])
                   /\ attempts' =
                          [attempts EXCEPT !.pipeline = Append(@, "succeeded")]
                   /\ step' = "done"
                   /\ UNCHANGED <<attempt, thrown>>
              ELSE AttemptFailed(
                       "pipeline",
                       IF outcome = "false"
                       THEN "Opportunity service returned false"
                       ELSE "updateStage rejected",
                       "done")
    /\ UNCHANGED <<request, tagCalls, tagsOnly>>
    /\ UNCHANGED <<queueVars, messageVars, memoryVars>>
    /\ UNCHANGED classifierVars
    /\ UNCHANGED engineVars

\* processTagsOnly(contactId, aiClassification), as a whole.
ProcessTagsOnly ==
    /\ tagsOnly = {}
    /\ \E contactId \in ContactIds, tags \in TagLists :
           IF Len(tags) = 0
           THEN /\ tagsOnly' = {[contactId |-> contactId, tags |-> tags,
                                 result |-> {}, returned |-> TRUE]}
                /\ UNCHANGED tagCalls
           ELSE \E posts \in Posts :
                    LET result == {addTags(contactId, tags, posts)}
                    IN  /\ tagCalls' = Append(tagCalls, result)
                        /\ tagsOnly' = {[contactId |-> contactId,
                                         tags |-> tags,
                                         result |-> result,
                                         returned |-> Truthy(result)]}
    /\ UNCHANGED <<request, postProcessResults, attempt, attempts, step,
                   thrown, stageCalls>>
    /\ UNCHANGED <<queueVars, messageVars, memoryVars>>
    /\ UNCHANGED classifierVars
    /\ UNCHANGED engineVars

ProcessorInit ==
    /\ ExtractIdle
    /\ EngineIdle

ProcessorNext ==
    \/ ProcessPostAIActions
    \/ TagsAttempt
    \/ PipelineAttempt
    \/ ProcessTagsOnly

ProcessorSpec == ProcessorInit /\ [][ProcessorNext]_vars

\* Every HTTP call has a timeout and every wait ends, so an attempt that
\* has begun comes to its end.
ProcessorLiveSpec ==
    /\ ProcessorSpec
    /\ WF_processorVars(TagsAttempt)
    /\ WF_processorVars(PipelineAttempt)

(***************************************************************************)
(* processEnhancedMessageAsync (src/unnamed/part_002, lines 222-352): the  *)
(* AI answers the message, the response is sent, then come the tagging     *)
(* step and the pipeline step.  A text is a sequence of atoms.             *)
(***************************************************************************)
Messages ==
    [contact_id : ContactIds, content : {<<>>, <<"hola">>},
     media_url : {"", "url"}, aiResult : {{}}]

\* aiResult.customer_response: absent, empty, blank or a text.
CustomerResponses == {{}, {<<>>}, {<<" ">>}, {<<"iphone", " ", "14">>}}

AIResults == [customer_response : CustomerResponses, tags : TagLists]

Inbound == CHOOSE m \in inbound : TRUE

\* if (!messageData.content && !messageData.media_url) return;
\* if (!messageData.contact_id) return;
Essential(m) ==
    /\ ~(m.content = <<>> /\ m.media_url = "")
    /\ m.contact_id # ""

\* if (aiResult.customer_response && aiResult.customer_response.trim())
HasResponse(aiResult) ==
    \E a \in aiResult : \E response \in a.customer_response :
        response # <<>> /\ Trim(response) # <<>>

\* A handler that goes on to the post-processing whatever became of the
\* response.
AfterSendAlways(outcome) == "tagging"

\* try { await sendGHLResponse(...) } catch (messageError) { return; }
AfterSend(outcome) == IF outcome = "ok" THEN "tagging" ELSE "ended"

\* The webhook hands a message over: to the return of the validation, or to
\* the await of the pricing data and of the AI.
ProcessEnhancedMessageAsync ==
    /\ msgStep = "idle"
    /\ inbound = {}
    /\ \E m \in Messages :
           /\ inbound' = {m}
           /\ msgStep' = IF Essential(m) THEN "ai" ELSE "ended"
    /\ UNCHANGED <<sends, tagging>>
    /\ UNCHANGED <<queueVars, processorVars, memoryVars>>
    /\ UNCHANGED classifierVars
    /\ UNCHANGED engineVars

\* getPricingData or processMessage throws and the outer catch ends the
\* call, or the AI result is there: to the await in sendGHLResponse, or to
\* the return when there is no response to send.
AIAnswers ==
    /\ msgStep = "ai"
    /\ \/ /\ msgStep' = "ended"
          /\ UNCHANGED inbound
       \/ \E a \in AIResults :
              /\ inbound' = {[Inbound EXCEPT !.aiResult = {a}]}
              /\ msgStep' = IF HasResponse({a}) THEN "send" ELSE "ended"
    /\ UNCHANGED <<sends, tagging>>
    /\ UNCHANGED <<queueVars, processorVars, memoryVars>>
    /\ UNCHANGED classifierVars
    /\ UNCHANGED engineVars

\* Step 5 begins: processPostAIActions runs to its first await.
StartPipeline ==
    /\ msgStep' = "pipeline"
    /\ \E a \in Inbound.aiResult : Called(Inbound.contact_id, a.tags)

\* The post of sendGHLResponse ends.  After a response that was sent, step
\* 4 runs to the await of updateTagsSmart or, with no tag to add, step 5
\* begins.
SendGHLResponse ==
    /\ msgStep = "send"
    /\ \E outcome \in {"ok", "threw"} :
           /\ sends' = Append(sends, outcome)
           /\ IF AfterSend(outcome) = "ended"
              THEN /\ msgStep' = "ended"
                   /\ UNCHANGED tagging
                   /\ UNCHANGED processorVars
              ELSE IF \E a \in Inbound.aiResult : Len(a.tags) > 0
                   THEN /\ msgStep' = "tagging"
                        /\ UNCHANGED tagging
                        /\ UNCHANGED processorVars
                   ELSE /\ tagging' = Append(tagging, "none")
                        /\ StartPipeline
                        /\ UNCHANGED <<tagCalls, stageCalls, tagsOnly>>
    /\ UNCHANGED inbound
    /\ UNCHANGED <<queueVars, memoryVars>>
    /\ UNCHANGED classifierVars
    /\ UNCHANGED engineVars

\* updateTagsSmart resolves with what addTags made of the tags, and step 5
\* begins.
UpdateTagsSmart ==
    /\ msgStep = "tagging"
    /\ \E a \in Inbound.aiResult, posts \in Posts :
           LET tagResult == addTags(Inbound.contact_id, a.tags, posts)
           IN  /\ tagCalls' = Append(tagCalls, {tagResult})
               /\ tagging' = Append(tagging, IF tagResult.success
                                             THEN "added"
                                             ELSE "failed")
    /\ StartPipeline
    /\ UNCHANGED <<stageCalls, tagsOnly>>
    /\ UNCHANGED <<inbound, sends>>
    /\ UNCHANGED <<queueVars, memoryVars>>
    /\ UNCHANGED classifierVars
    /\ UNCHANGED engineVars

\* processPostAIActions has resolved: the results are logged and the call
\* ends.
PostProcessed ==
    /\ msgStep = "pipeline"
    /\ step = "done"
    /\ msgStep' = "ended"
    /\ UNCHANGED <<inbound, sends, tagging>>
    /\ UNCHANGED <<queueVars, processorVars, memoryVars>>
    /\ UNCHANGED classifierVars
    /\ UNCHANGED engineVars

MessageInit ==
    /\ ExtractIdle
    /\ EngineIdle

MessageNext ==
    \/ ProcessEnhancedMessageAsync
    \/ AIAnswers
    \/ SendGHLResponse
    \/ UpdateTagsSmart
    \/ TagsAttempt
    \/ PipelineAttempt
    \/ PostProcessed

MessageSpec == MessageInit /\ [][MessageNext]_vars

(***************************************************************************)
(* ConversationMemoryService.storeMessage (src/unnamed/part_005).  Each    *)
(* contact has one file.  The content of a message is the number of the    *)
(* write that stored it for its contact, short of the 2000 characters at   *)
(* which storeMessage cuts; the user and the assistant take turns.  The    *)
(* timestamps and the metadata are left out.  storeMessage has no await:   *)
(* a call is one step.                                                     *)
(***************************************************************************)
\* this.maxMessagesPerConversation = 50
maxMessagesPerConversation == 50

Role(k) == IF k % 2 = 1 THEN "user" ELSE "assistant"

Message(role, content) == [role |-> role, content |-> content]

\* _getEmptyConversation(contactId)
_getEmptyConversation(contactId) ==
    [contact_id |-> contactId, message_count |-> 0, messages |-> <<>>]

\* _loadConversation(contactId)
_loadConversation(files, contactId) ==
    IF files[contactId] # {}
    THEN CHOOSE conversation \in files[contactId] : TRUE
    ELSE _getEmptyConversation(contactId)

\* A cut that keeps the oldest messages.
SliceFirst(s, n) == IF Len(s) <= n THEN s ELSE SubSeq(s, 1, n)

\* messages.slice(-n)
SliceLast(s, n) == IF Len(s) <= n THEN s ELSE SubSeq(s, Len(s) - n + 1, Len(s))

\* if (!contactId || !role || !content) return false;
ValidParameters(contactId, role, content) ==
    /\ contactId # ""
    /\ role # ""
    /\ content # {}

\* push, message_count = messages.length, then the cut to the last 50.
Pushed(conversation, message) ==
    LET messages == Append(conversation.messages, message)
    IN  [conversation EXCEPT
            !.message_count = Len(messages),
            !.messages =
                IF Len(messages) > maxMessagesPerConversation
                THEN SliceLast(messages, maxMessagesPerConversation)
                ELSE messages]

\* storeMessage(contactId, role, content, metadata).  The write of the file
\* succeeds, or it throws and the catch returns false.
StoreMessage ==
    \E contactId \in ContactIds, write \in {"written", "threw"} :
        LET next == IF contactId = "" THEN 1 ELSE stored[contactId] + 1
        IN  /\ contactId # "" => stored[contactId] < MaxStores
            /\ \E role \in {"", Role(next)}, content \in {{}, {next}} :
                   IF ValidParameters(contactId, role, content)
                      /\ write = "written"
                   THEN /\ conversationFiles' =
                               [conversationFiles EXCEPT
                                   ![contactId] =
                                       {Pushed(_loadConversation(
                                                   conversationFiles,
                                                   contactId),
                                               Message(role, content))}]
                        /\ stored' = [stored EXCEPT ![contactId] = next]
                        /\ storeCall' = {[contactId |-> contactId,
                                          role |-> role, content |-> content,
                                          returned |-> TRUE]}
                   ELSE /\ storeCall' = {[contactId |-> contactId,
                                          role |-> role, content |-> content,
                                          returned |-> FALSE]}
                        /\ UNCHANGED <<conversationFiles, stored>>
    /\ UNCHANGED <<queueVars, processorVars, messageVars>>
    /\ UNCHANGED classifierVars
    /\ UNCHANGED engineVars

MemoryInit ==
    /\ ExtractIdle
    /\ EngineIdle

MemoryNext == StoreMessage

MemorySpec == MemoryInit /\ [][MemoryNext]_vars

(***************************************************************************)
(* Properties of the classifiers.                                          *)
(***************************************************************************)
ModelNumbers == {"13", "14", "15"}

\* The text mentions the words ws in this order, blanks or nothing between.
Mentions(s, ws) == \E i \in 1..Len(s) : MatchLits(s, i, ws, 1) # 0

\* The text names a single iPhone.
OneIphone(s) == Cardinality({i \in 1..Len(s) : s[i] = "iphone"}) = 1

\* The variant suffix, besides pro, that the table lists for model number n.
OtherSuffix(n) == IF n = "13" THEN "mini" ELSE "plus"

ProMaxFirst(q) ==
    \A n \in ModelNumbers :
        /\ Mentions(q, <<"iphone", n, "pro", "max">>)
           => analyzed = {Words(<<"iphone", n, "pro", "max">>)}
        /\ (Mentions(q, <<"iphone", n, "pro">>)
                /\ ~Mentions(q, <<"iphone", n, "pro", "max">>))
           => analyzed = {Words(<<"iphone", n, "pro">>)}

\* C2 as stated: "iPhone N Pro Max" yields "iphone N pro max", "iPhone N Pro"
\* without Max yields "iphone N pro", and the bare "iphone N" is never
\* extracted from a query in which N is followed by "pro" or "plus".
C2_AsStated ==
    analyzed # {} =>
        LET q == ToLowerCase(text)
        IN  /\ OneIphone(q) => ProMaxFirst(q)
            /\ \A n \in ModelNumbers :
                   analyzed = {Words(<<"iphone", n>>)} =>
                       /\ ~Mentions(q, <<"iphone", n, "pro">>)
                       /\ ~Mentions(q, <<"iphone", n, "plus">>)

\* C2 amended: for a query naming a single iPhone, "iPhone N Pro Max" yields
\* "iphone N pro max" and "iPhone N Pro" without Max yields "iphone N pro";
\* for every query, the bare "iphone N" is never extracted when "iphone N" is
\* followed by "pro" or by the other suffix the table lists for N ("plus" for
\* 14 and 15, "mini" for 13).
C2_FirstMatchWins ==
    analyzed # {} =>
        LET q == ToLowerCase(text)
        IN  /\ OneIphone(q) => ProMaxFirst(q)
            /\ \A n \in ModelNumbers :
                   analyzed = {Words(<<"iphone", n>>)} =>
                       /\ ~Mentions(q, <<"iphone", n, "pro">>)
                       /\ ~Mentions(q, <<"iphone", n, OtherSuffix(n)>>)

\* A query naming "iPhone N Pro Max" has been analyzed.
C2_Witness ==
    /\ OneIphone(ToLowerCase(text))
    /\ \E n \in ModelNumbers :
           /\ Mentions(ToLowerCase(text), <<"iphone", n, "pro", "max">>)
           /\ analyzed = {Words(<<"iphone", n, "pro", "max">>)}

\* The text is written the way product names are: words, one blank between.
Spaced(s) ==
    /\ Len(s) > 0
    /\ \A i \in 1..Len(s) : IsSpace(s[i]) <=> i % 2 = 0
    /\ Len(s) % 2 = 1

\* C4 as stated: for every product name that names a model of the analyzer's
\* table, the loader derives the device model the analyzer extracts.
C4_LoaderAgreesWithAnalyzer ==
    (Spaced(text) /\ analyzed # {} /\ analyzed # {Unknown} /\ loaded # {})
        => loaded = analyzed

(***************************************************************************)
(* Properties of searchProducts.                                           *)
(***************************************************************************)
\* The call that has resolved, when there is one.
TheCall == CHOOSE c \in call : TRUE

Entries == {returned[i] : i \in 1..Len(returned)}

NameOf(entry) == ToLowerCase(entry.Prod)

CatalogHas(productName) == \E i \in 1..Len(products) : products[i].name = productName

\* C1: with "iPhone 14" and "iPhone 14 Pro" screens in the catalog,
\* searchProducts("iPhone 14 pantalla") returns only iPhone 14 items, none
\* whose name contains "pro", and searchProducts("iPhone 14 Pro pantalla")
\* returns only iPhone 14 Pro items, whatever the embedding provider does.
C1_ExactModelExclusion ==
    (call # {} /\ CatalogHas(IPhone14) /\ CatalogHas(IPhone14Pro)) =>
        /\ TheCall.query = QueryIPhone14 =>
               \A e \in Entries :
                   /\ Includes(NameOf(e), Words(<<"iphone", "14">>))
                   /\ ~Has(NameOf(e), "pro")
        /\ TheCall.query = QueryIPhone14Pro =>
               \A e \in Entries :
                   Includes(NameOf(e), Words(<<"iphone", "14", "pro">>))

\* The semantic path found exact matches for the model of the query.
ExactMatchesReturned ==
    /\ call # {}
    /\ _extractExactDeviceModel(TheCall.query) # Unknown
    /\ Len(returned) > 0
    /\ \A e \in Entries : e._semanticMatch = {TRUE} /\ e._isApproximate = {}

\* C3: when an exact device model is detected in the query and at least one
\* candidate matches it, every returned item is of exactly that model.
C3_OnlyTheExactModel ==
    ExactMatchesReturned =>
        \A e \in Entries :
            _extractExactDeviceModel(e.Prod) = _extractExactDeviceModel(TheCall.query)

\* C5: searchProducts returns at most maxResults results, on every path.
C5_AtMostLimit ==
    call # {} => Len(returned) <= TheCall.maxResults

\* The keyword search found more than maxResults items and the call returned
\* maxResults of them.
C5_Witness ==
    /\ call # {}
    /\ TheCall.maxResults >= 1
    /\ Len(returned) = TheCall.maxResults
    /\ \A e \in Entries : e._keywordMatch = {TRUE}
    /\ Len(_fallbackKeywordSearch(products, TheCall.query, Len(products)))
           > TheCall.maxResults

\* The score of an entry does not exceed the score of an earlier one.
NotGreater(later, earlier) ==
    /\ (later._semanticMatch = {TRUE}) => (earlier._semanticMatch = {TRUE})
    /\ (later._semanticMatch = {TRUE}) => ~MoreSimilar(later, earlier)
    /\ (later._keywordMatch = {TRUE}) => (earlier._keywordMatch = {TRUE})
    /\ (later._keywordMatch = {TRUE}) => ~ScoreGreater(later, earlier)

\* C6: every returned list is in non-increasing score order and holds no two
\* entries for the same catalog item.
C6_OrderedNoDuplicates ==
    \A i, j \in 1..Len(returned) :
        i < j =>
            /\ NotGreater(returned[j], returned[i])
            /\ returned[i]._metadata.originalIndex
                   # returned[j]._metadata.originalIndex

\* A semantic result whose second entry is less similar than its first and
\* sits before it in the catalog.
C6_Witness ==
    /\ Len(returned) >= 2
    /\ returned[1]._semanticMatch = {TRUE}
    /\ MoreSimilar(returned[1], returned[2])
    /\ returned[1]._metadata.originalIndex > returned[2]._metadata.originalIndex

\* C8: with a non-empty catalog, every searchProducts call (asking for at
\* least one result) returns a non-empty list.
C8_NeverEmpty ==
    (call # {} /\ Len(products) > 0 /\ TheCall.maxResults > 0)
        => Len(returned) > 0

\* The device model a query asks for: what the analyzer extracts, and
\* "iphone 99" for a query that names the iPhone 99.
RequestedModel(query) ==
    IF Mentions(ToLowerCase(query), <<"iphone", "99">>)
    THEN Words(<<"iphone", "99">>)
    ELSE _extractExactDeviceModel(query)

\* C9: a query for a device model that no catalog item names returns a
\* non-empty list whose entries all have isApproximate = true and
\* exactModelRequested = the requested model.
C9_ApproximateFallback ==
    (/\ call # {}
     /\ TheCall.maxResults > 0
     /\ Len(products) > 0
     /\ RequestedModel(TheCall.query) # Unknown
     /\ \A i \in 1..Len(products) :
            ~Includes(ToLowerCase(products[i].name),
                      RequestedModel(TheCall.query)))
        => /\ Len(returned) > 0
           /\ \A e \in Entries :
                  /\ e._isApproximate = {TRUE}
                  /\ e._exactModelRequested = {RequestedModel(TheCall.query)}

\* C10: every entry flagged isApproximate carries exactModelRequested, set to
\* the device model detected in the query, which is not "unknown".
C10_ApproximateHasModel ==
    \A e \in Entries :
        e._isApproximate = {TRUE} =>
            /\ e._exactModelRequested = {_extractExactDeviceModel(TheCall.query)}
            /\ e._exactModelRequested # {Unknown}

\* A call has returned an approximate result.
C10_Witness ==
    /\ Len(returned) > 0
    /\ \E e \in Entries : e._isApproximate = {TRUE}

(***************************************************************************)
(* Properties of the keyword fallback (FallbackSpec).                      *)
(***************************************************************************)
\* The catalog items whose name contains "iphone 13" and a battery synonym.
IPhone13BatteryItems ==
    {i \in 1..Len(products) :
        /\ Includes(ToLowerCase(products[i].name), Words(<<"iphone", "13">>))
        /\ \/ Has(ToLowerCase(products[i].name), "bateria")
           \/ Has(ToLowerCase(products[i].name), "battery")}

\* The catalog items whose name contains a keyword of "iPhone 13 bateria".
KeywordItems ==
    {i \in 1..Len(products) :
        \/ Has(ToLowerCase(products[i].name), "iphone")
        \/ Has(ToLowerCase(products[i].name), "bateria")}

IsReturned(i) == \E e \in Entries : e._metadata.originalIndex = i

\* C7 as stated: with the provider failing on every call,
\* searchProducts("iPhone 13 bateria") returns every catalog item whose name
\* contains "iphone 13" and a battery synonym, whatever the catalog size.
C7_AsStated ==
    (provider = "down" /\ call # {} /\ TheCall.query = QueryIPhone13)
        => \A i \in IPhone13BatteryItems : IsReturned(i)

\* C7 amended: ... returns every such item whenever at most maxResults
\* (20 by default) catalog items contain a keyword of the query.
C7_FallbackAvailability ==
    (/\ provider = "down"
     /\ call # {}
     /\ TheCall.query = QueryIPhone13
     /\ Cardinality(KeywordItems) <= TheCall.maxResults)
        => \A i \in IPhone13BatteryItems : IsReturned(i)

\* The call returned the row "iPhone 13 battery", which shares only the
\* keyword "iphone" with the query, as the last of maxResults results.
C7_Witness ==
    /\ provider = "down"
    /\ call # {}
    /\ TheCall.query = QueryIPhone13
    /\ Len(returned) = TheCall.maxResults
    /\ returned[Len(returned)].Prod = IPhone13Battery
    /\ returned[Len(returned)]._score = {1}

(***************************************************************************)
(* Properties of the life of the index.                                    *)
(***************************************************************************)
HasData(rows) == \E i \in 1..Len(rows) : HasName(rows[i])

AllAnswered(p) == \A k \in 1..Len(p.answers) : p.answers[k] = "ok"

C14_ReloadReachesReady ==
    \A p \in pass :
        (p.process = process /\ HasData(p.catalog))
            => (isInitialized /\ Len(products) > 0)

UniqueIds(p) ==
    \A i, j \in 1..Len(p.loaded) :
        p.loaded[i].id = p.loaded[j].id => i = j

SameIds(p, q) ==
    \A i \in 1..Len(p.loaded) : \A j \in 1..Len(q.loaded) :
        p.loaded[i].name = q.loaded[j].name
            => p.loaded[i].id = q.loaded[j].id

\* C16: the ids of one load differ from each other, and a product name that
\* two consecutive loads both find has the same id in both, whatever
\* happened to the other rows of the catalog.
C16_StableIds ==
    \A p \in pass :
        /\ UniqueIds(p)
        /\ \A q \in previous : SameIds(p, q)

\* C17: a load of a catalog in which no row has a product name, there being
\* no data row or none with a first column, ends with a parse error.
C17_EmptyCatalogRejected ==
    \A p \in pass :
        (p.loading /\ ~HasData(p.catalog)) => p.error # {}

Requested(p, id) == \E k \in 1..Len(p.requests) : p.requests[k] = id

CacheHas(id) == \E cached \in vectorCacheFile : MapHas(cached, id)

\* C18: after a load during which requests failed, every product of the
\* catalog that had no cached vector was requested, every request that was
\* answered left its vector in the store and in the cache file, only the
\* failed ones left none, and initialize() has completed.
C18_FailureSkipsOneItem ==
    \A p \in pass :
        (p.loading /\ p.process = process /\ p.error = {})
            => /\ isInitialized
               /\ Len(p.answers) = Len(p.requests)
               /\ \A i \in 1..Len(p.loaded) :
                      \/ Requested(p, p.loaded[i].id)
                      \/ MapHas(vectorStore, p.loaded[i].id)
               /\ \A k \in 1..Len(p.requests) :
                      /\ p.answers[k] = "ok"
                             <=> MapHas(vectorStore, p.requests[k])
                      /\ p.answers[k] = "ok" <=> CacheHas(p.requests[k])
               /\ vectorCacheFile = {vectorStore}

\* The first request of a load of more than one batch has failed and the
\* last one, in a later batch, has left its vector.
C18_Witness ==
    \E p \in pass :
        /\ p.loading /\ p.process = process
        /\ Len(p.requests) > batchSize
        /\ p.answers[1] # "ok"
        /\ p.answers[Len(p.requests)] = "ok"
        /\ MapHas(vectorStore, p.requests[Len(p.requests)])
        /\ CacheHas(p.requests[2])
        /\ isInitialized

(***************************************************************************)
(* Properties of concurrent calls.                                         *)
(***************************************************************************)
\* C11: when the request for the embedding of the query fails, by an error
\* or by a timeout, searchProducts resolves, and with what the keyword
\* fallback gives for the query and the limit of the call.
C11_FailureFallsBack ==
    \A k \in call :
        (pc[Searcher] = "returned" /\ k.outcome \in {"error", "timeout"})
            => returned = _fallbackKeywordSearch(products, k.query,
                                                 k.maxResults)

\* A call whose request timed out has resolved with keyword matches.
C11_Witness ==
    \E k \in call :
        /\ pc[Searcher] = "returned"
        /\ k.outcome = "timeout"
        /\ Len(returned) > 1
        /\ \A i \in 1..Len(returned) : returned[i]._keywordMatch = {TRUE}

\* C13: at most one caller at a time is between the guard of initialize()
\* and the assignment isInitialized = true, loading the catalog, requesting
\* embeddings or writing the cache file.
C13_OnePassAtATime ==
    Cardinality({c \in Callers : pc[c] \in Loading}) <= 1

Issued(c) == pc[c] \notin {"idle", "returned"}

\* C15: a searchProducts call that has been issued, whatever the state of
\* the index at that moment, resolves.
C15_SearchReturns == Issued(Searcher) ~> pc[Searcher] = "returned"

\* The search has resolved with a result while the other caller is still
\* loading the index.
C15_Witness ==
    /\ pc[Searcher] = "returned"
    /\ Len(returned) > 0
    /\ \E c \in Callers : pc[c] \in Loading

(***************************************************************************)
(* Properties of price extraction (PriceSpec).                             *)
(***************************************************************************)
\* The values the extraction has produced for item.
Extracted == {p.value : p \in priced \cup quoted}

\* The prices the two texts show for item.
Shown == UNION {p.shown.price : p \in priced \cup quoted}

PriceColumns == DOMAIN catalogItem \ {"Prod"}

\* The source values "0", "", "N/A" and "abc".
NamedNoPrices == {<<"0">>, <<>>, <<"N", "/", "A">>, <<"a", "b", "c">>}

\* A zero, blank or non-numeric source value: no digit other than 0 in it.
Worthless(s) == \A i \in 1..Len(s) : s[i] \in Digits => s[i] = "0"

OfCombination(asked) ==
    LET OnTarget(product) ==
            CombinationOf(product.metadata)
                = Combination(QualityQuery(asked.deviceModel,
                                           asked.serviceType))
    IN  Filter(products, OnTarget)

Tiers(productList) ==
    {productList[i].metadata.qualityType : i \in 1..Len(productList)}

\* The options go up in price, those without a price after the others.
SortedByPrice(options) ==
    \A i, j \in 1..Len(options) :
        i < j => LET priceI == _extractValidPrice(options[i])
                     priceJ == _extractValidPrice(options[j])
                 IN  \/ ~GreaterThanZero(priceJ)
                     \/ /\ GreaterThanZero(priceI)
                        /\ ~LessThan(priceJ, priceI)

\* C20: when the catalog holds N >= 1 products of the device and service
\* asked for, each of a quality tier of its own, findAllQualityOptions
\* returns exactly one group, which holds N options sorted by price,
\* ascending, the options without a price last.
C20_QualityComplete ==
    \A asked \in qualityOptions :
        LET variants == OfCombination(asked)
            N == Cardinality(Tiers(variants))
        IN  (N >= 1 /\ Len(variants) = N)
                => /\ Len(asked.groups) = 1
                   /\ Len(asked.groups[1].options) = N
                   /\ SortedByPrice(asked.groups[1].options)

(***************************************************************************)
(* Properties of the rebuilt index (RebuildSpec, Spec).                    *)
(***************************************************************************)
\* C21: of two semantic results of equal similarity, the one returned first
\* is the one that comes first in the catalog, also when the vector store
\* was rebuilt from the cache file and extended.
C21_TiesInCatalogOrder ==
    \A i, j \in 1..Len(returned) :
        (/\ i < j
         /\ returned[i]._semanticMatch = {TRUE}
         /\ returned[j]._semanticMatch = {TRUE}
         /\ ~MoreSimilar(returned[i], returned[j]))
            => returned[i]._metadata.originalIndex
                   < returned[j]._metadata.originalIndex

\* C29: once the index is built, every entry of the vector store, which a
\* semantic search visits one by one, belongs to a product of the catalog
\* that is loaded, also when a cache file of an earlier catalog was read.
C29_StoreWithinCatalog ==
    isInitialized =>
        \A i \in 1..Len(vectorStore) : MapHas(products, vectorStore[i].id)

(***************************************************************************)
(* Properties of the message queue (QueueSpec, QueueLiveSpec).             *)
(***************************************************************************)
\* C22: at any time at most one drain loop of processMessageQueue is
\* running, and so at most one message is inside processMessage.
C22_OneAtATime == Len(draining) <= 1

\* A message is inside processMessage while another one waits and the
\* callback that addToQueue scheduled for it is still to run.
C22_Witness ==
    /\ Len(draining) = 1
    /\ Len(messageQueue) > 0
    /\ immediates > 0
    /\ processing

\* The messages were handed to processMessage once each, in the order of
\* their arrival, and the flag is down when no drain loop is running.
InArrivalOrder ==
    /\ \A i \in 1..Len(handed) : handed[i].message = i
    /\ draining = <<>> => ~processing

\* C23: every message given to addToQueue is in the end handed to
\* processMessage, once, in the order of arrival, whether it came in while
\* a drain was running or after a message whose processing threw; when no
\* drain is running the processing flag is false.
C23_NoMessageLost ==
    /\ []InArrivalOrder
    /\ \A m \in 1..MaxMessages : (arrived >= m) ~> (Len(handed) >= m)

\* All the messages have been handed over, the first one threw, and a
\* callback of addToQueue is still to run: its message was taken by a drain
\* loop that was running when it arrived.
C23_Witness ==
    /\ Len(handed) = MaxMessages
    /\ handed[1].outcome = "threw"
    /\ draining = <<>>
    /\ immediates > 0

\* C24: in processPostAIActions the tag step and the pipeline step are
\* independent: whatever became of the tag step, the pipeline step is
\* attempted; the call always resolves with a results object, in which
\* overall.completedSteps is the number of steps whose success flag is true
\* and overall.success is true exactly when that number is at least 1.
Steps == {"tags", "pipeline"}

Succeeded == {s \in Steps : postProcessResults[s].success}

Resolved ==
    /\ stageCalls # <<>>
    /\ postProcessResults.overall.completedSteps = Cardinality(Succeeded)
    /\ postProcessResults.overall.success <=> Cardinality(Succeeded) >= 1

C24_StepsIndependent ==
    /\ [](step = "done" => Resolved)
    /\ (step = "tags") ~> (step = "done")

\* The tag service added no tag, the pipeline step was attempted all the
\* same, and the call has resolved.
C24_Witness ==
    /\ step = "done"
    /\ Len(tagCalls) = 1
    /\ \A r \in tagCalls[1] : ~r.success
    /\ Len(stageCalls) = maxRetries + 1
    /\ postProcessResults.pipeline.error # {}

\* C25: each retry loop of the processor makes at most maxRetries + 1 = 3
\* attempts and stops at the first attempt that succeeds; it throws exactly
\* after the last of 3 failed attempts, with the error recorded in results;
\* and every loop comes to its end.
AtMostThree(loop) == Len(attempts[loop]) <= maxRetries + 1

StopsAtSuccess(loop) ==
    \A i \in 1..Len(attempts[loop]) :
        attempts[loop][i] = "succeeded" => i = Len(attempts[loop])

AllFailed(loop) ==
    /\ Len(attempts[loop]) = maxRetries + 1
    /\ \A i \in 1..Len(attempts[loop]) : attempts[loop][i] = "failed"

ThrowsAfterLast(loop) ==
    /\ loop \in thrown <=> AllFailed(loop)
    /\ loop \in thrown => postProcessResults[loop].error # {}

C25_LoopsEnd ==
    /\ [](\A loop \in Steps :
             AtMostThree(loop) /\ StopsAtSuccess(loop) /\ ThrowsAfterLast(loop))
    /\ (step = "tags") ~> (step # "tags")
    /\ (step = "pipeline") ~> (step = "done")

\* The pipeline loop has thrown after its third failed attempt.
C25_Witness ==
    /\ "pipeline" \in thrown
    /\ attempts.pipeline = <<"failed", "failed", "failed">>
    /\ step = "done"

\* C28: the processor reports the tag step as successful
\* (results.tags.success, or processTagsOnly returning true) only when
\* there were no tags to add or addTags added them.
C28_SuccessMeansAdded ==
    /\ postProcessResults.tags.success =>
           \/ Len(Request.tags) = 0
           \/ \E d \in postProcessResults.tags.data :
                  \E r \in d.tagResult : r.success
    /\ \A t \in tagsOnly :
           t.returned =>
               \/ Len(t.tags) = 0
               \/ \E r \in t.result : r.success

\* C27: in processEnhancedMessageAsync the tagging step and the pipeline
\* step are attempted only after the response was sent successfully: after
\* a send that failed neither is attempted, without a response of the AI
\* nothing is sent, and once the response is sent the pipeline step is
\* attempted whatever the tagging step did.
PostProcessing ==
    \/ tagging # <<>>
    \/ step # "idle"
    \/ tagCalls # <<>>
    \/ stageCalls # <<>>

C27_AfterResponseSent ==
    /\ PostProcessing => sends = <<"ok">>
    /\ (\A m \in inbound : ~HasResponse(m.aiResult)) => sends = <<>>
    /\ (msgStep = "ended" /\ sends = <<"ok">>) => stageCalls # <<>>

\* The response was sent, the tagging step failed to add the tags and the
\* pipeline step was attempted.
C27_Witness ==
    /\ msgStep = "ended"
    /\ sends = <<"ok">>
    /\ tagging = <<"failed">>
    /\ stageCalls # <<>>

\* C26: after any sequence of storeMessage calls the conversation of a
\* contact holds at most 50 messages, the most recently stored ones in the
\* order in which they were stored; a call with a missing contactId, role
\* or content stores nothing.
Smaller(a, b) == IF a < b THEN a ELSE b

MostRecent(n) ==
    LET kept == Smaller(n, maxMessagesPerConversation)
    IN  [i \in 1..kept |-> Message(Role(n - kept + i), {n - kept + i})]

LastFifty ==
    \A contactId \in Contacts :
        LET conversation == _loadConversation(conversationFiles, contactId)
        IN  /\ Len(conversation.messages) <= 50
            /\ conversation.messages = MostRecent(stored[contactId])

Refused ==
    \E c \in storeCall' : ~ValidParameters(c.contactId, c.role, c.content)

C26_LastFiftyInOrder ==
    /\ []LastFifty
    /\ [][Refused => conversationFiles' = conversationFiles]_vars

\* A contact has had 51 messages stored and the first one is gone.
C26_Witness ==
    \E contactId \in Contacts :
        /\ stored[contactId] = 51
        /\ \E conversation \in conversationFiles[contactId] :
               /\ Len(conversation.messages) = 50
               /\ conversation.messages[1].content = {2}
               /\ conversation.messages[50].content = {51}

\* C30: in every persisted conversation, message_count is the number of
\* messages in the messages list.
C30_CountIsLength ==
    \A contactId \in Contacts :
        \A conversation \in conversationFiles[contactId] :
            conversation.message_count = Len(conversation.messages)

====
